---- MODULE Spec2Model ----
(***************************************************************************)
(* Model of mcp-openai: the deep research job lifecycle (start, poll,      *)
(* terminal outcome), the retry/timeout executor and the synchronous       *)
(* generation and search controllers that use it, the cost model and the   *)
(* usage ledger.                                                           *)
(*                                                                         *)
(* Time is Date.now() in milliseconds, kept relative to the start of the   *)
(* running call.  Money is kept in whole micro-dollars (1e-6 USD), the     *)
(* unit roundToMicro rounds to; prices are kept in cents per 1M tokens so  *)
(* that every price of the table is a whole number.  Error messages are    *)
(* strings and are searched the way the code searches them (includes,      *)
(* startsWith, toLowerCase).  An optional value is a sequence of length 0  *)
(* (absent) or 1 (present).                                                *)
(***************************************************************************)
EXTENDS Integers, Sequences, FiniteSets, TLC

\* ---------------------------------------------------------------- bounds

\* Overall timeouts tried by research(): 0 .. MaxTimeoutIntervals poll intervals.
MaxTimeoutIntervals == 2
\* Latency of a remote call or lateness of a timer: 0 .. MaxLatencyUnits units.
MaxLatencyUnits == 1
\* Tool invocations served one after the other by the process.
MaxCalls == 1
\* Largest maxRetries tried when withRetry is called with explicit options.
MaxRetriesTried == 3
\* lines of the durable log when the process first starts
MaxLogLines == 2
\* operations on the cost tracker after the first start
MaxLedgerOps == 3

\* ------------------------------------------------------- string functions

\* String.prototype.includes
Includes(s, p) ==
  \/ Len(p) = 0
  \/ \E i \in 1..(Len(s) - Len(p) + 1) : SubSeq(s, i, i + Len(p) - 1) = p

\* String.prototype.startsWith
StartsWith(s, p) ==
  \/ Len(p) = 0
  \/ Len(s) >= Len(p) /\ SubSeq(s, 1, Len(p)) = p

UpperCase == "ABCDEFGHIJKLMNOPQRSTUVWXYZ"
LowerCase == "abcdefghijklmnopqrstuvwxyz"

LowerChar(c) ==
  IF \E i \in 1..Len(UpperCase) : SubSeq(UpperCase, i, i) = c
  THEN LET i == CHOOSE j \in 1..Len(UpperCase) : SubSeq(UpperCase, j, j) = c
       IN SubSeq(LowerCase, i, i)
  ELSE c

RECURSIVE LowerFrom(_, _)
LowerFrom(s, i) ==
  IF i > Len(s) THEN "" ELSE LowerChar(SubSeq(s, i, i)) \o LowerFrom(s, i + 1)

\* String.prototype.toLowerCase
ToLowerCase(s) == LowerFrom(s, 1)

\* ------------------------------------------------------------- cost model

TEXT_MODELS == {"gpt-5.2", "gpt-5.2-pro", "gpt-5.2-chat-latest"}
DEEP_RESEARCH_MODELS == {"o3-deep-research", "o4-mini-deep-research"}
WEB_SEARCH_MODELS == {"gpt-5.2", "gpt-5.2-chat-latest"}

\* Prices in cents per 1M tokens (1.75 USD = 175).
OPENAI_PRICING ==
  [m \in TEXT_MODELS \cup DEEP_RESEARCH_MODELS |->
     CASE m = "gpt-5.2" -> [input |-> 175, output |-> 1400]
       [] m = "gpt-5.2-pro" -> [input |-> 2100, output |-> 16800]
       [] m = "gpt-5.2-chat-latest" -> [input |-> 175, output |-> 1400]
       [] m = "o3-deep-research" -> [input |-> 1000, output |-> 4000]
       [] m = "o4-mini-deep-research" -> [input |-> 200, output |-> 800]]

DEFAULT_PRICING == [input |-> 2100, output |-> 16800]

\* NaN, the result of arithmetic on undefined: a value outside the amounts,
\* which every operation hands on.
NaN == 0 - 1
Times(a, b) == IF a = NaN \/ b = NaN THEN NaN ELSE a * b
Plus(a, b) == IF a = NaN \/ b = NaN THEN NaN ELSE a + b

\* roundToMicro that rounds up.
roundToMicroCeiling(n) == IF n = NaN THEN NaN ELSE (n + 99) \div 100

\* Math.round(value * 1e6) / 1e6 of value = n / 100 micro-dollars, in micro-dollars
\* (Math.round rounds a half up).
roundToMicro(n) == IF n = NaN THEN NaN ELSE (2 * n + 100) \div 200

\* Names every object inherits from Object.prototype (some of them): for these
\* OPENAI_PRICING[model] is an inherited member, which is truthy and has neither
\* an input nor an output property.
OBJECT_PROTOTYPE_KEYS ==
  {"constructor", "toString", "valueOf", "hasOwnProperty", "__proto__"}

\* const pricing = OPENAI_PRICING[model], as an optional value
PricingOf(model) ==
  IF model \in DOMAIN OPENAI_PRICING THEN <<OPENAI_PRICING[model]>>
  ELSE IF model \in OBJECT_PROTOTYPE_KEYS THEN <<[input |-> NaN, output |-> NaN]>>
  ELSE <<>>

calculateCost(model, promptTokens, completionTokens) ==
  LET pricing == PricingOf(model)
      estimated == Len(pricing) = 0
      effectivePricing == IF Len(pricing) # 0 THEN pricing[1] ELSE DEFAULT_PRICING
      inputCost == Times(promptTokens, effectivePricing.input)
      outputCost == Times(completionTokens, effectivePricing.output)
  IN [inputCost |-> roundToMicro(inputCost),
      outputCost |-> roundToMicro(outputCost),
      totalCost |-> roundToMicro(Plus(inputCost, outputCost)),
      estimated |-> estimated]

\* ------------------------------------------------------------------ state

VARIABLES
  pc,            \* position of the running call: idle, create, retrieving, sleeping,
                 \* attempt, backoff, done
  tool,          \* the operation that is running, "none" when idle
  opts,          \* the options the running call was given
  calls,         \* number of calls started since the process started
  outcome,       \* none | success | error: how the running call ended
  errMsg,        \* message of the Error the call raised ("" when none)
  result,        \* optional: the value the call returned
  entries,       \* CostTracker.entries, the in-memory ledger
  usageLog,      \* entries handed to Logger.logUsage
  costsFile,     \* CostTracker.costsFile: optional path of the durable log
  disk,          \* the lines of the durable log file costs.jsonl, in file order
  ledgerOps,     \* what was done to the cost tracker so far, in order
  ledgerAtStart, \* Len(entries) when the running call started
  creates,       \* responses.create requests issued by the running call
  retrieves,     \* responses.retrieve requests issued by the running call
  elapsed,       \* Date.now() - startTime of the running call
  responseId,    \* job identifier returned by the start request ("" before)
  polled,        \* what each retrieval of the running call gave, in order
  createError,   \* optional: the error the start request rejected with
  sleeps,        \* the durations pollForCompletion asked sleep() for, in order
  remoteCalls,   \* the client methods the running call invoked, in order
  attempt,       \* withRetry: the loop variable
  delay,         \* withRetry: the current delay
  slept,         \* withRetry: the delays slept so far, in order
  lastError,     \* withRetry: optional, the error of the last failed attempt
  retryOpts,     \* withRetry: the merged options of the running call
  invocations,   \* tool invocations running concurrently, in the order they started
  races          \* withTimeout: one race per attempt, with what has happened in it

callVars == <<pc, tool, opts, calls, outcome, errMsg, result, ledgerAtStart>>
ledgerVars == <<entries, usageLog, costsFile, disk, ledgerOps>>
researchVars == <<creates, retrieves, elapsed, responseId, polled, createError, sleeps,
                  remoteCalls>>
retryVars == <<attempt, delay, slept, lastError, retryOpts>>
eventLoopVars == <<invocations, races>>
vars == <<callVars, ledgerVars, researchVars, retryVars, eventLoopVars>>

NoOpts == [tool |-> "none"]
NoRetryOpts == [maxRetries |-> 0, initialDelayMs |-> 0, maxDelayMs |-> 0,
                backoffMultiplier |-> 0, retryableErrors |-> {}]

Init ==
  /\ pc = "idle"
  /\ tool = "none"
  /\ opts = NoOpts
  /\ calls = 0
  /\ outcome = "none"
  /\ errMsg = ""
  /\ result = <<>>
  /\ entries = <<>>
  /\ usageLog = <<>>
  /\ costsFile = <<>>
  /\ disk = <<>>
  /\ ledgerOps = <<"disabled">>
  /\ ledgerAtStart = 0
  /\ creates = 0
  /\ retrieves = 0
  /\ elapsed = 0
  /\ responseId = ""
  /\ polled = <<>>
  /\ createError = <<>>
  /\ sleeps = <<>>
  /\ remoteCalls = <<>>
  /\ attempt = 0
  /\ delay = 0
  /\ slept = <<>>
  /\ lastError = <<>>
  /\ retryOpts = NoRetryOpts
  /\ invocations = <<>>
  /\ races = <<>>

\* ----------------------------------------------------------------- ledger

COSTS_FILE == "logs/costs.jsonl"

\* new Date().toISOString(): a clock that every call and every operation on the
\* cost tracker advances.
Now == calls + Len(ledgerOps)

\* JSON.stringify(entry): the text of one line of the durable log.  A line is
\* kept with the value JSON.parse gives for it, none when it is not JSON.
Stringify(entry) == [kind |-> "json", value |-> <<entry>>]

\* Lines no entry serializes to: a write cut short, and an empty line.
TruncatedLine == [kind |-> "truncated", value |-> <<>>]
BlankLine == [kind |-> "blank", value |-> <<>>]

\* appendFileSync(costsFile, line) inside try/catch: written, or failed silently.
AppendOutcomes == IF Len(costsFile) = 0 THEN {"none"} ELSE {"written", "failed"}

\* trackCost that pushes the entry twice.
trackCostTwice(entry) ==
  /\ entries' = Append(Append(entries, entry), entry)
  /\ ledgerOps' = Append(ledgerOps, "trackCost")
  /\ UNCHANGED <<costsFile, disk>>

\* trackCost that writes first and keeps the entry only when the write worked.
trackCostWriteFirst(entry) ==
  /\ \E o \in AppendOutcomes :
       /\ disk' = IF o = "written" THEN Append(disk, Stringify(entry)) ELSE disk
       /\ entries' = IF o = "failed" THEN entries ELSE Append(entries, entry)
  /\ ledgerOps' = Append(ledgerOps, "trackCost")
  /\ UNCHANGED costsFile

\* trackCost that stores the entry in the place of the last one.
trackCostReplacingLast(entry) ==
  /\ entries' = IF Len(entries) = 0 THEN <<entry>>
                ELSE [entries EXCEPT ![Len(entries)] = entry]
  /\ \E o \in AppendOutcomes :
       disk' = IF o = "written" THEN Append(disk, Stringify(entry)) ELSE disk
  /\ ledgerOps' = Append(ledgerOps, "trackCost")
  /\ UNCHANGED costsFile

\* CostTracker.trackCost: push to the in-memory entries, append to the file.
trackCost(entry) ==
  /\ entries' = Append(entries, entry)
  /\ \E o \in AppendOutcomes :
       disk' = IF o = "written" THEN Append(disk, Stringify(entry)) ELSE disk
  /\ ledgerOps' = Append(ledgerOps, "trackCost")
  /\ UNCHANGED costsFile

\* Logger.logUsage
logUsage(entry) == usageLog' = Append(usageLog, entry)

Last(seq) == seq[Len(seq)]

\* usage?.promptTokens || 0
PromptTokens(usage) == IF Len(usage) = 0 THEN 0 ELSE usage[1].input_tokens
CompletionTokens(usage) == IF Len(usage) = 0 THEN 0 ELSE usage[1].output_tokens

\* The call ends by throwing Error(msg).
Throw(msg) ==
  /\ pc' = "done"
  /\ outcome' = "error"
  /\ errMsg' = msg
  /\ result' = <<>>

\* ---------------------------------------------------------- deep research

DEFAULT_POLL_INTERVAL_MS == 10000

TimeoutChoices == {k * DEFAULT_POLL_INTERVAL_MS : k \in 0..MaxTimeoutIntervals}
PollIntervalChoices == {<<>>, <<2 * DEFAULT_POLL_INTERVAL_MS>>}
\* Latencies and timer lateness tried: multiples of half a default poll interval.
Latencies == {k * (DEFAULT_POLL_INTERVAL_MS \div 2) : k \in 0..MaxLatencyUnits}

ResearchOptions ==
  [tool : {"deep_research"}, model : DEEP_RESEARCH_MODELS,
   timeoutMs : TimeoutChoices, pollIntervalMs : PollIntervalChoices]

\* pollIntervalMs = DEFAULT_POLL_INTERVAL_MS when the option is absent
PollIntervalOf(o) ==
  IF Len(o.pollIntervalMs) = 0 THEN DEFAULT_POLL_INTERVAL_MS ELSE o.pollIntervalMs[1]

\* What responses.create can resolve with for a background job: an id or none.
JobIds == {"resp_a1", "resp_b2"}
CreateIds == JobIds \cup {""}

\* What responses.retrieve can resolve with.
SomeUsage == [input_tokens |-> 3, output_tokens |-> 1]
RetrieveResponses ==
  [status : {"in_progress", "queued"}, output_text : {""}, usage : {<<>>},
   error : {<<>>}]
  \cup [status : {"completed"}, output_text : {"", "report"},
        usage : {<<>>, <<SomeUsage>>}, error : {<<>>}]
  \cup [status : {"failed"}, output_text : {""}, usage : {<<>>},
        error : {<<>>, <<"quota exhausted">>}]

\* Messages of the errors responses.create / responses.retrieve can reject with
\* in the research controller, with the status the SDK attaches (0: none).
StartErrors ==
  { [status |-> 401, message |-> "401 Incorrect API key provided"],
    [status |-> 429, message |-> "429 Too Many Requests"],
    [status |-> 500, message |-> "500 Internal server error"],
    [status |-> 0, message |-> "Connection error."] }
RetrieveErrors ==
  { [status |-> 0, message |-> "Connection error."],
    [status |-> 0, message |-> "API_ERROR: upstream unavailable"],
    [status |-> 0, message |-> "TIMEOUT: upstream gateway"] }

\* Math.round(elapsed / 1000 / 60)
RoundMinutes(ms) == (2 * ms + 60000) \div 120000

\* DeadlinePassed that takes the timeout for seconds.
DeadlinePassedInSeconds(e, timeoutMs) == e > timeoutMs * 1000

\* deep-research-provider.ts 202: the overall deadline
DeadlinePassed(e, timeoutMs) == e > timeoutMs

TimeoutMessage(e, id) ==
  "TIMEOUT: Research timed out after " \o ToString(RoundMinutes(e)) \o " minutes. "
    \o "The research may still be running - response ID: " \o id

\* IsOwnError that does not know the API_ERROR prefix.
IsOwnErrorWithoutApiError(message) ==
  \/ StartsWith(message, "TIMEOUT:")
  \/ StartsWith(message, "RESEARCH_FAILED:")

\* The catch of pollForCompletion: is the caught error one of the loop's own?
IsOwnError(message) ==
  \/ StartsWith(message, "TIMEOUT:")
  \/ StartsWith(message, "RESEARCH_FAILED:")
  \/ StartsWith(message, "API_ERROR:")

\* StartCatch that reports every failure of the start request as API_ERROR.
StartCatchAllApiError(error) == "API_ERROR: " \o error.message

\* The catch of startResearch: the message of the Error it throws.
StartCatch(error) ==
  IF \/ Includes(error.message, "API key")
     \/ Includes(error.message, "Incorrect API key")
     \/ error.status = 401
  THEN "AUTH_ERROR: Invalid or missing OpenAI API key"
  ELSE IF error.status = 429
  THEN "RATE_LIMIT: OpenAI API rate limit exceeded. Please wait and retry."
  ELSE "API_ERROR: " \o error.message

\* research(): a call starts; startResearch issues the create request.
Research(o) ==
  /\ pc = "idle"
  /\ calls < MaxCalls
  /\ pc' = "create"
  /\ tool' = "deep_research"
  /\ opts' = o
  /\ calls' = calls + 1
  /\ ledgerAtStart' = Len(entries)
  /\ creates' = 1
  /\ remoteCalls' = <<"responses.create">>
  /\ elapsed' = 0
  /\ UNCHANGED <<outcome, errMsg, result, ledgerVars, retrieves, responseId, polled,
                 createError, sleeps, retryVars>>
  /\ UNCHANGED eventLoopVars

\* PollIteration that cancels the remote job when the deadline has passed.
PollIterationCancelling(e, id) ==
  IF DeadlinePassed(e, opts.timeoutMs)
  THEN /\ Throw(TimeoutMessage(e, id))
       /\ remoteCalls' = Append(remoteCalls, "responses.cancel")
       /\ UNCHANGED retrieves
  ELSE /\ pc' = "retrieving"
       /\ retrieves' = retrieves + 1
       /\ remoteCalls' = Append(remoteCalls, "responses.retrieve")
       /\ UNCHANGED <<outcome, errMsg, result>>

\* Top of the poll loop at elapsed time e for job id: the deadline check, then the
\* retrieve request is issued.
PollIteration(e, id) ==
  IF DeadlinePassed(e, opts.timeoutMs)
  THEN /\ Throw(TimeoutMessage(e, id))
       /\ UNCHANGED <<retrieves, remoteCalls>>
  ELSE /\ pc' = "retrieving"
       /\ retrieves' = retrieves + 1
       /\ remoteCalls' = Append(remoteCalls, "responses.retrieve")
       /\ UNCHANGED <<outcome, errMsg, result>>

\* The create request resolves with a response carrying id (or none).
CreateResolves(id, lat) ==
  /\ pc = "create"
  /\ tool = "deep_research"
  /\ elapsed' = elapsed + lat
  /\ IF id = ""
     THEN /\ Throw(StartCatch([status |-> 0,
                   message |-> "API_ERROR: No response ID returned from API"]))
          /\ UNCHANGED <<responseId, retrieves, remoteCalls>>
     ELSE /\ responseId' = id
          /\ PollIteration(elapsed', id)
  /\ UNCHANGED <<tool, opts, calls, ledgerAtStart, ledgerVars, creates, polled,
                 createError, sleeps, retryVars>>
  /\ UNCHANGED eventLoopVars

\* The create request rejects.
CreateRejects(error, lat) ==
  /\ pc = "create"
  /\ tool = "deep_research"
  /\ elapsed' = elapsed + lat
  /\ createError' = <<error>>
  /\ Throw(StartCatch(error))
  /\ UNCHANGED <<tool, opts, calls, ledgerAtStart, ledgerVars, creates, retrieves,
                 responseId, polled, sleeps, remoteCalls, retryVars>>
  /\ UNCHANGED eventLoopVars

\* Estimated that looks at the price table only.
EstimatedByPriceOnly(cost, usage) == cost.estimated

\* estimated: cost.estimated || !result.usage
Estimated(cost, usage) == cost.estimated \/ Len(usage) = 0

\* research() after pollForCompletion returned r: cost, ledger, usage log, return.
ResearchReturns(r) ==
  LET cost == calculateCost(opts.model, PromptTokens(r.usage), CompletionTokens(r.usage))
  IN /\ trackCost([timestamp |-> Now,
                   model |-> opts.model,
                   operation |-> "deep_research",
                   inputCost |-> cost.inputCost,
                   outputCost |-> cost.outputCost,
                   totalCost |-> cost.totalCost,
                   estimated |-> Estimated(cost, r.usage),
                   usage |-> r.usage])
     /\ logUsage([operation |-> "deep_research", model |-> opts.model,
                  success |-> (r.status = "completed"), error |-> ""])
     /\ pc' = "done"
     /\ outcome' = "success"
     /\ errMsg' = ""
     /\ result' = <<[text |-> r.text, status |-> r.status, usage |-> r.usage,
                     responseId |-> responseId, cost |-> cost]>>

\* IsCompleted with the status misspelt: a completed job is polled again.
IsCompletedMisspelt(status) == status = "complete"

\* IsFailed with the status misspelt: a failed job is polled again.
IsFailedMisspelt(status) == status = "failure"

\* The status of a retrieved response is one that ends the loop.
IsCompleted(status) == status = "completed"
IsFailed(status) == status = "failed"

\* await this.sleep(ms): the loop waits for the timer.
Sleep(ms) ==
  /\ pc' = "sleeping"
  /\ sleeps' = Append(sleeps, ms)
  /\ UNCHANGED <<outcome, errMsg, result>>

\* The catch of the loop body for an error with this message, thrown by the
\* retrieve request or by the loop body itself: re-throw, or sleep and poll again.
PollCatch(message) ==
  IF IsOwnError(message)
  THEN /\ Throw(message)
       /\ UNCHANGED sleeps
  ELSE Sleep(PollIntervalOf(opts))

\* A retrieve request resolves with response.
RetrieveResolves(response, lat) ==
  /\ pc = "retrieving"
  /\ elapsed' = elapsed + lat
  /\ polled' = Append(polled, [status |-> response.status,
                               hasText |-> response.output_text # "",
                               error |-> response.error])
  /\ IF IsCompleted(response.status)
     THEN IF response.output_text = ""
          THEN /\ PollCatch("API_ERROR: Research completed but no output text found")
               /\ UNCHANGED ledgerVars
          ELSE /\ ResearchReturns([text |-> response.output_text,
                                   status |-> "completed", usage |-> response.usage])
               /\ UNCHANGED sleeps
     ELSE IF IsFailed(response.status)
     THEN /\ PollCatch("RESEARCH_FAILED: " \o
                       (IF Len(response.error) = 0
                        THEN "Research failed with unknown error"
                        ELSE response.error[1]))
          /\ UNCHANGED ledgerVars
     ELSE /\ Sleep(PollIntervalOf(opts))
          /\ UNCHANGED ledgerVars
  /\ UNCHANGED <<tool, opts, calls, ledgerAtStart, creates, retrieves, responseId,
                 createError, remoteCalls, retryVars>>
  /\ UNCHANGED eventLoopVars

\* A retrieve request rejects: the catch of the loop body.
RetrieveRejects(error, lat) ==
  /\ pc = "retrieving"
  /\ elapsed' = elapsed + lat
  /\ polled' = Append(polled, [status |-> "threw", hasText |-> FALSE,
                               error |-> <<error.message>>])
  /\ PollCatch(error.message)
  /\ UNCHANGED <<tool, opts, calls, ledgerAtStart, ledgerVars, creates, retrieves,
                 responseId, createError, remoteCalls, retryVars>>
  /\ UNCHANGED eventLoopVars

\* The sleep between two polls ends (a timer fires at its time or later).
SleepResolves(late) ==
  /\ pc = "sleeping"
  /\ elapsed' = elapsed + Last(sleeps) + late
  /\ PollIteration(elapsed', responseId)
  /\ UNCHANGED <<tool, opts, calls, ledgerAtStart, ledgerVars, creates, responseId,
                 polled, createError, sleeps, retryVars>>
  /\ UNCHANGED eventLoopVars

\* ------------------------------------------------------ error classifier

\* categorizeError (types.ts): the category of a raw failure.
categorizeError(error) ==
  LET message == error.message
      status == error.status
  IN IF \/ status = 401
        \/ Includes(message, "API key")
        \/ Includes(message, "unauthorized")
        \/ Includes(message, "Incorrect API key")
     THEN "AUTH_ERROR"
     ELSE IF \/ status = 429
             \/ Includes(message, "rate")
             \/ Includes(message, "quota")
             \/ Includes(message, "too many requests")
     THEN "RATE_LIMIT"
     ELSE IF Includes(message, "safety") \/ Includes(message, "content_policy")
     THEN "SAFETY_BLOCK"
     ELSE IF \/ Includes(message, "blocked")
             \/ Includes(message, "content policy")
             \/ Includes(message, "moderation")
     THEN "CONTENT_BLOCKED"
     ELSE IF Includes(message, "TIMEOUT") \/ Includes(message, "timed out")
     THEN "TIMEOUT"
     ELSE "API_ERROR"

\* ------------------------------------------------- retry/timeout executor

DEFAULT_RETRY_OPTIONS ==
  [maxRetries |-> 3,
   initialDelayMs |-> 1000,
   maxDelayMs |-> 30000,
   backoffMultiplier |-> 2,
   retryableErrors |-> {"RATE_LIMIT", "429", "503", "502", "ECONNRESET", "ETIMEDOUT",
                        "ENOTFOUND", "temporarily unavailable", "too many requests"}]

\* CallSiteRetryOptions with a pattern that matches a timed-out attempt.
CallSiteRetryOptionsWithTimeout ==
  [DEFAULT_RETRY_OPTIONS EXCEPT
     !.maxRetries = 2,
     !.retryableErrors = {"RATE_LIMIT", "429", "503", "502", "ECONNRESET", "ETIMEDOUT",
                          "TIMEOUT"}]

\* The options generate() and search() pass to withRetry.
CallSiteRetryOptions ==
  [DEFAULT_RETRY_OPTIONS EXCEPT
     !.maxRetries = 2,
     !.retryableErrors = {"RATE_LIMIT", "429", "503", "502", "ECONNRESET", "ETIMEDOUT"}]

\* Per-attempt timeout of generate() and search(): 60 minutes.
DEFAULT_TIMEOUT_MS == 3600000

\* TimeoutError without the TIMEOUT prefix.
TimeoutErrorUnmarked ==
  [status |-> 0,
   message |-> "Operation timed out after " \o ToString(DEFAULT_TIMEOUT_MS) \o "ms"]

\* The error withTimeout rejects with when its timer fires first.
TimeoutError ==
  [status |-> 0,
   message |-> "TIMEOUT: Operation timed out after " \o ToString(DEFAULT_TIMEOUT_MS) \o "ms"]

\* isRetryable (retry.ts): a case-insensitive substring match on the message.
isRetryable(error, retryableErrors) ==
  \E pattern \in retryableErrors :
    Includes(ToLowerCase(error.message), ToLowerCase(pattern))

\* BudgetExhausted one attempt late.
BudgetExhaustedLate(n, maxRetries) == n = maxRetries + 1

\* BudgetExhausted one attempt early.
BudgetExhaustedEarly(n, maxRetries) == n + 1 >= maxRetries

\* withRetry's loop test after a failed attempt: no budget left.
BudgetExhausted(n, maxRetries) == n = maxRetries

Min(a, b) == IF a <= b THEN a ELSE b

\* NextDelay without the cap.
NextDelayUncapped(d, o) == d * o.backoffMultiplier

\* delay = Math.min(delay * backoffMultiplier, maxDelayMs)
NextDelay(d, o) == Min(d * o.backoffMultiplier, o.maxDelayMs)

\* Raw failures a remote create request can reject with (status 0: none attached).
ApiErrors ==
  { [status |-> 401, message |-> "401 Incorrect API key provided: sk-ab***5029."],
    [status |-> 401, message |-> "401 Unauthorized"],
    [status |-> 429, message |-> "429 Rate limit reached for requests"],
    [status |-> 0, message |-> "getaddrinfo ENOTFOUND api.openai.com"],
    [status |-> 0, message |-> "You exceeded your current quota"],
    [status |-> 500, message |-> "500 Internal server error"] }

\* What a remote create request of generate() or search() can resolve with.
\* A source of a web search call as the remote reports it (title: optional).
Source(url, title) == [url |-> url, title |-> title, type |-> "url"]

\* An item of response.output; sources is item.action?.sources (<<>>: absent).
OutputItem(type, sources) == [type |-> type, sources |-> sources]

\* response.output of a create response (<<>>: absent).
OutputChoices ==
  { <<>>,
    << << OutputItem("web_search_call", << <<>> >>), OutputItem("message", <<>>) >> >>,
    << << OutputItem("web_search_call",
                     << << Source("https://a.example", <<"A">>),
                           Source("https://a.example", <<"A">>),
                           Source("https://b.example", <<>>) >> >>),
          OutputItem("web_search_call", <<>>),
          OutputItem("message",
                     << << Source("https://m.example", <<"M">>) >> >>),
          OutputItem("web_search_call",
                     << << Source("https://c.example", <<"C">>) >> >>) >> >> }

CreateResponses ==
  [output_text : {"", "text"}, usage : {<<>>, <<SomeUsage>>}, output : OutputChoices]

\* ------------------------------------------- generate (text provider)

REASONING_EFFORTS == {"none", "low", "medium", "high", "xhigh"}
PRO_REASONING_EFFORTS == {"medium", "high", "xhigh"}
STRUCTURED_OUTPUT_MODELS == {"gpt-5.2", "gpt-5.2-chat-latest"}

\* isValidProReasoningEffort that lets "low" through.
isValidProReasoningEffortWithLow(effort) == effort \in PRO_REASONING_EFFORTS \cup {"low"}

isValidProReasoningEffort(effort) == effort \in PRO_REASONING_EFFORTS
supportsStructuredOutput(model) == model \in STRUCTURED_OUTPUT_MODELS

GenerateOptions ==
  [tool : {"generate_text"}, model : TEXT_MODELS,
   reasoningEffort : {<<>>} \cup {<<e>> : e \in REASONING_EFFORTS},
   temperature : {<<>>, <<7>>},
   jsonSchema : {<<>>, <<"schema">>}]

\* reasoningEffort = "none" when the option is absent
ReasoningEffortOf(o) ==
  IF Len(o.reasoningEffort) = 0 THEN "none" ELSE o.reasoningEffort[1]

\* The three checks at the top of generate(): the message of the MCPError thrown,
\* if any, as an optional value.
ValidateGenerate(o) ==
  LET reasoningEffort == ReasoningEffortOf(o)
  IN IF o.model = "gpt-5.2-pro" /\ ~isValidProReasoningEffort(reasoningEffort)
     THEN <<"VALIDATION_ERROR: gpt-5.2-pro only supports reasoning effort: "
            \o "medium, high, xhigh. Got: " \o reasoningEffort>>
     ELSE IF Len(o.temperature) # 0 /\ reasoningEffort # "none"
     THEN <<"VALIDATION_ERROR: Temperature is only allowed when "
            \o "reasoning_effort=\"none\". Either remove temperature or set "
            \o "reasoning_effort to \"none\".">>
     ELSE IF Len(o.jsonSchema) # 0 /\ ~supportsStructuredOutput(o.model)
     THEN <<"VALIDATION_ERROR: Structured outputs (json_schema) are not supported by "
            \o o.model \o ". Use gpt-5.2 or gpt-5.2-chat-latest.">>
     ELSE <<>>

\* The catch of generate(): the message of the Error it throws for error.
GenerateCatch(error) ==
  IF \/ Includes(error.message, "API key")
     \/ Includes(error.message, "Incorrect API key")
     \/ error.status = 401
  THEN "AUTH_ERROR: Invalid or missing OpenAI API key"
  ELSE IF \/ Includes(error.message, "quota")
          \/ Includes(error.message, "rate")
          \/ error.status = 429
  THEN "RATE_LIMIT: OpenAI API rate limit or quota exceeded. Please wait and retry."
  ELSE IF Includes(error.message, "content_policy") \/ Includes(error.message, "moderation")
  THEN "SAFETY_BLOCK: Content was blocked by OpenAI safety filters"
  ELSE IF Includes(error.message, "TIMEOUT")
  THEN "TIMEOUT: Request timed out. The prompt may be too complex or the service is slow."
  ELSE "GENERATION_ERROR: " \o error.message

\* ---------------------------------------- search (web search provider)

MAX_ALLOWED_DOMAINS == 100

DomainLists ==
  { <<>>, <<"wikipedia.org", "https://github.com">>,
    [i \in 1..MAX_ALLOWED_DOMAINS |-> "example.org"],
    [i \in 1..(MAX_ALLOWED_DOMAINS + 1) |-> "example.org"] }

SearchOptions ==
  [tool : {"web_search"}, model : WEB_SEARCH_MODELS,
   allowedDomains : DomainLists, includeSources : BOOLEAN]

\* ValidateSearch without the check of the entries' format.
ValidateSearchCountOnly(o) ==
  IF Len(o.allowedDomains) > MAX_ALLOWED_DOMAINS
  THEN <<"VALIDATION_ERROR: Maximum " \o ToString(MAX_ALLOWED_DOMAINS)
         \o " allowed domains permitted. Got: " \o ToString(Len(o.allowedDomains))>>
  ELSE <<>>

\* The two checks at the top of search(), as an optional error message.
ValidateSearch(o) ==
  IF Len(o.allowedDomains) > MAX_ALLOWED_DOMAINS
  THEN <<"VALIDATION_ERROR: Maximum " \o ToString(MAX_ALLOWED_DOMAINS)
         \o " allowed domains permitted. Got: " \o ToString(Len(o.allowedDomains))>>
  ELSE IF \E i \in 1..Len(o.allowedDomains) : Includes(o.allowedDomains[i], "://")
  THEN LET i == CHOOSE j \in 1..Len(o.allowedDomains) :
                  /\ Includes(o.allowedDomains[j], "://")
                  /\ \A k \in 1..(j - 1) : ~Includes(o.allowedDomains[k], "://")
       IN <<"VALIDATION_ERROR: Domains must not include scheme (https://). Got: "
            \o o.allowedDomains[i]>>
  ELSE <<>>

\* The catch of search(): the message of the Error it throws for error.
SearchCatch(error) ==
  IF \/ Includes(error.message, "API key")
     \/ Includes(error.message, "Incorrect API key")
     \/ error.status = 401
  THEN "AUTH_ERROR: Invalid or missing OpenAI API key"
  ELSE IF \/ Includes(error.message, "quota")
          \/ Includes(error.message, "rate")
          \/ error.status = 429
  THEN "RATE_LIMIT: OpenAI API rate limit or quota exceeded. Please wait and retry."
  ELSE IF Includes(error.message, "TIMEOUT")
  THEN "TIMEOUT: Web search timed out. Try a simpler query."
  ELSE "SEARCH_ERROR: " \o error.message

\* ------------------------------------------------ calls through withRetry

WithRetryOptions ==
  [tool : {"with_retry"},
   maxRetries : {<<>>} \cup {<<n>> : n \in 0..MaxRetriesTried},
   maxDelayMs : {<<>>, <<3 * DEFAULT_RETRY_OPTIONS.initialDelayMs>>},
   retryableErrors : {<<>>, <<{"TIMEOUT"}>>}]

\* const opts = { ...DEFAULT_RETRY_OPTIONS, ...options }
MergeRetryOptions(o) ==
  [DEFAULT_RETRY_OPTIONS EXCEPT
     !.maxRetries = IF Len(o.maxRetries) = 0 THEN @ ELSE o.maxRetries[1],
     !.maxDelayMs = IF Len(o.maxDelayMs) = 0 THEN @ ELSE o.maxDelayMs[1],
     !.retryableErrors = IF Len(o.retryableErrors) = 0 THEN @
                         ELSE o.retryableErrors[1]]

\* withRetry starts with merged options ro: the first attempt is issued.
StartRetry(ro) ==
  /\ retryOpts' = ro
  /\ attempt' = 0
  /\ delay' = ro.initialDelayMs
  /\ slept' = <<>>
  /\ lastError' = <<>>
  /\ creates' = 1
  /\ remoteCalls' = <<"responses.create">>
  /\ pc' = "attempt"
  /\ UNCHANGED <<outcome, errMsg, result>>

\* StartCall with the validation inside the try block: the catch logs the failure.
StartCallValidatingInTry(t, o, invalid, ro) ==
  /\ pc = "idle"
  /\ calls < MaxCalls
  /\ tool' = t
  /\ opts' = o
  /\ calls' = calls + 1
  /\ ledgerAtStart' = Len(entries)
  /\ IF Len(invalid) # 0
     THEN /\ Throw(invalid[1])
          /\ logUsage([operation |-> t, model |-> o.model, success |-> FALSE,
                       error |-> invalid[1]])
          /\ UNCHANGED <<creates, remoteCalls, retryVars, entries, costsFile, disk,
                         ledgerOps>>
     ELSE StartRetry(ro) /\ UNCHANGED ledgerVars
  /\ UNCHANGED <<retrieves, elapsed, responseId, polled, createError, sleeps>>
  /\ UNCHANGED eventLoopVars

\* A call of kind t with options o starts; invalid is the optional message of the
\* validation error thrown before the try block.
StartCall(t, o, invalid, ro) ==
  /\ pc = "idle"
  /\ calls < MaxCalls
  /\ tool' = t
  /\ opts' = o
  /\ calls' = calls + 1
  /\ ledgerAtStart' = Len(entries)
  /\ IF Len(invalid) # 0
     THEN /\ Throw(invalid[1])
          /\ UNCHANGED <<creates, remoteCalls, retryVars>>
     ELSE StartRetry(ro)
  /\ UNCHANGED <<ledgerVars, retrieves, elapsed, responseId, polled, createError,
                 sleeps>>
  /\ UNCHANGED eventLoopVars

\* generate(options)
Generate(o) == StartCall("generate_text", o, ValidateGenerate(o), CallSiteRetryOptions)

\* search(options)
Search(o) == StartCall("web_search", o, ValidateSearch(o), CallSiteRetryOptions)

\* withRetry(fn, options) called directly
WithRetry(o) == StartCall("with_retry", o, <<>>, MergeRetryOptions(o))

\* sources.push({ url: source.url, title: source.title }) for every source
SourcesOf(sources) == [i \in 1..Len(sources) |-> [url |-> sources[i].url,
                                                   title |-> sources[i].title]]

\* seq without the later occurrences of its elements.
RECURSIVE Distinct(_)
Distinct(seq) ==
  IF Len(seq) = 0 THEN <<>>
  ELSE LET front == Distinct(SubSeq(seq, 1, Len(seq) - 1))
       IN IF \E i \in 1..Len(front) : front[i] = Last(seq)
          THEN front ELSE Append(front, Last(seq))

\* CollectSources that drops a source already collected.
RECURSIVE CollectSourcesOnce(_)
CollectSourcesOnce(items) ==
  IF Len(items) = 0 THEN <<>>
  ELSE LET item == items[Len(items)]
           before == CollectSourcesOnce(SubSeq(items, 1, Len(items) - 1))
           found == IF item.type = "web_search_call" /\ Len(item.sources) # 0
                    THEN SourcesOf(item.sources[1]) ELSE <<>>
       IN Distinct(before \o found)

\* The loop over response.output: the sources of its web_search_call items.
RECURSIVE CollectSources(_)
CollectSources(items) ==
  IF Len(items) = 0 THEN <<>>
  ELSE LET item == Head(items)
       IN (IF item.type = "web_search_call" /\ Len(item.sources) # 0
           THEN SourcesOf(item.sources[1]) ELSE <<>>)
          \o CollectSources(Tail(items))

\* The sources field of search()'s result (<<>>: undefined).
ExtractSources(includeSources, output) ==
  LET sources == IF includeSources /\ Len(output) # 0
                 THEN CollectSources(output[1]) ELSE <<>>
  IN IF Len(sources) > 0 THEN <<sources>> ELSE <<>>

\* generate() / search() after withRetry returned response: cost, ledger, usage log.
CallReturns(response) ==
  LET usage == response.usage
      cost == calculateCost(opts.model, PromptTokens(usage), CompletionTokens(usage))
  IN /\ trackCost([timestamp |-> Now,
                   model |-> opts.model,
                   operation |-> tool,
                   inputCost |-> cost.inputCost,
                   outputCost |-> cost.outputCost,
                   totalCost |-> cost.totalCost,
                   estimated |-> cost.estimated,
                   usage |-> usage])
     /\ logUsage([operation |-> tool, model |-> opts.model, success |-> TRUE,
                  error |-> ""])
     /\ result' = IF tool = "web_search"
                  THEN <<[text |-> response.output_text, usage |-> usage, cost |-> cost,
                          sources |-> ExtractSources(opts.includeSources,
                                                     response.output)]>>
                  ELSE <<[text |-> response.output_text, usage |-> usage, cost |-> cost]>>

\* The attempt in flight resolves with response: withRetry returns it.
AttemptResolves(response) ==
  /\ pc = "attempt"
  /\ pc' = "done"
  /\ outcome' = "success"
  /\ errMsg' = ""
  /\ IF tool = "with_retry"
     THEN /\ result' = <<[text |-> response.output_text, usage |-> response.usage]>>
          /\ UNCHANGED ledgerVars
     ELSE CallReturns(response)
  /\ UNCHANGED <<tool, opts, calls, ledgerAtStart, researchVars, retryVars>>
  /\ UNCHANGED eventLoopVars

\* Propagate that throws the error of the attempt before the last one, if any.
PropagateEarlier(error) ==
  LET thrown == IF Len(lastError) # 0 THEN lastError[1] ELSE error
  IN IF tool = "with_retry"
     THEN /\ Throw(thrown.message)
          /\ UNCHANGED ledgerVars
     ELSE LET msg == IF tool = "generate_text" THEN GenerateCatch(thrown)
                     ELSE SearchCatch(thrown)
          IN /\ logUsage([operation |-> tool, model |-> opts.model, success |-> FALSE,
                          error |-> msg])
             /\ Throw(msg)
             /\ UNCHANGED <<entries, costsFile, disk, ledgerOps>>

\* withRetry throws error to its caller: the catch of generate() / search().
Propagate(error) ==
  IF tool = "with_retry"
  THEN /\ Throw(error.message)
       /\ UNCHANGED ledgerVars
  ELSE LET msg == IF tool = "generate_text" THEN GenerateCatch(error)
                  ELSE SearchCatch(error)
       IN /\ logUsage([operation |-> tool, model |-> opts.model, success |-> FALSE,
                       error |-> msg])
          /\ Throw(msg)
          /\ UNCHANGED <<entries, costsFile, disk, ledgerOps>>

\* The catch of withRetry's loop body for the error of the attempt in flight.
AttemptFails(error) ==
  /\ pc = "attempt"
  /\ lastError' = <<error>>
  /\ IF \/ BudgetExhausted(attempt, retryOpts.maxRetries)
        \/ ~isRetryable(error, retryOpts.retryableErrors)
     THEN Propagate(error)
     ELSE /\ pc' = "backoff"
          /\ UNCHANGED <<outcome, errMsg, result, ledgerVars>>
  /\ UNCHANGED <<tool, opts, calls, ledgerAtStart, researchVars, attempt, delay, slept,
                 retryOpts>>
  /\ UNCHANGED eventLoopVars

\* The attempt in flight rejects with error.
AttemptRejects(error) == AttemptFails(error)

\* withTimeout's timer fires before the attempt in flight settles: the race
\* rejects with TimeoutError inside the function withRetry was given.
AttemptTimesOut == AttemptFails(TimeoutError)

\* The sleep before a retry ends: the delay grows and the next attempt is issued.
BackoffResolves ==
  /\ pc = "backoff"
  /\ slept' = Append(slept, delay)
  /\ delay' = NextDelay(delay, retryOpts)
  /\ attempt' = attempt + 1
  /\ creates' = creates + 1
  /\ remoteCalls' = Append(remoteCalls, "responses.create")
  /\ pc' = "attempt"
  /\ UNCHANGED <<tool, opts, calls, outcome, errMsg, result, ledgerAtStart, ledgerVars,
                 retrieves, elapsed, responseId, polled, createError, sleeps, lastError,
                 retryOpts>>
  /\ UNCHANGED eventLoopVars

\* ----------------------------------------- check_research tool handler

\* The methods class OpenAIDeepResearchProvider defines.
DeepResearchProviderMethods == {"research", "getModelInfo"}

\* What the dispatcher can be given as response_id.
ResponseIdArgs == JobIds \cup {""}

\* The check_research handler of the tool dispatcher.  The call ends with the tool
\* response: outcome "error" is a response with isError set, errMsg is its text.
\* The handler calls deepResearchProvider.checkResearch; calling a property that
\* is not defined raises a TypeError, which the handler's catch turns into an
\* error response.
CheckResearchTool(id) ==
  /\ pc = "idle"
  /\ calls < MaxCalls
  /\ tool' = "check_research"
  /\ opts' = [tool |-> "check_research", response_id |-> id]
  /\ calls' = calls + 1
  /\ ledgerAtStart' = Len(entries)
  /\ IF id = ""
     THEN Throw("Error: response_id is required")
     ELSE /\ "checkResearch" \notin DeepResearchProviderMethods
          /\ Throw("Error: deepResearchProvider.checkResearch is not a function")
  /\ UNCHANGED <<ledgerVars, researchVars, retryVars>>
  /\ UNCHANGED eventLoopVars

\* The tools of the dispatcher whose handlers the calls above go through.
DispatcherTools == {"generate_text", "web_search", "deep_research", "check_research"}

\* The response the dispatcher returns for a call that ended with an error: the
\* catch of each handler puts "Error: " in front of the message it caught
\* (errMsg of a check_research call is that text already).
ToolResponse ==
  [isError |-> outcome = "error",
   text |-> IF tool = "check_research" THEN errMsg ELSE "Error: " \o errMsg]

\* ------------------------------------------- cost tracker and its file

\* TotalCost that counts the first entry only.
TotalCostOfFirst(es) == IF Len(es) = 0 THEN 0 ELSE es[1].totalCost

\* Sum of totalCost over a sequence of entries.
RECURSIVE TotalCost(_)
TotalCost(es) == IF Len(es) = 0 THEN 0 ELSE es[1].totalCost + TotalCost(Tail(es))

WithModel(es, m) == SelectSeq(es, LAMBDA e : e.model = m)
WithOperation(es, op) == SelectSeq(es, LAMBDA e : e.operation = op)
EstimatedOnly(es) == SelectSeq(es, LAMBDA e : e.estimated)

\* CostTracker.getSummary over entries es.  Amounts are whole micro-dollars, which
\* the final rounding to 1e-6 leaves as they are.
\* const round = (n) => Math.round(n * 1_000_000) / 1_000_000, of n micro-dollars
round(n) == roundToMicro(100 * n)

getSummary(es) ==
  [totalCost |-> round(TotalCost(es)),
   byModel |-> [m \in {es[i].model : i \in 1..Len(es)} |->
                  round(TotalCost(WithModel(es, m)))],
   byOperation |-> [op \in {es[i].operation : i \in 1..Len(es)} |->
                      round(TotalCost(WithOperation(es, op)))],
   callCount |-> Len(es),
   estimatedCosts |-> round(TotalCost(EstimatedOnly(es))),
   since |-> IF Len(es) = 0 THEN Now ELSE es[1].timestamp]

\* reset that also empties the file.
resetTruncating ==
  /\ entries' = <<>>
  /\ disk' = <<>>
  /\ UNCHANGED costsFile

\* CostTracker.reset
reset ==
  /\ entries' = <<>>
  /\ UNCHANGED <<costsFile, disk>>

\* loadHistoricalCosts that gives up at the first line it cannot parse.
RECURSIVE loadHistoricalCostsAborting(_)
loadHistoricalCostsAborting(lines) ==
  IF Len(lines) = 0 THEN <<>>
  ELSE IF Head(lines).kind = "blank" THEN loadHistoricalCostsAborting(Tail(lines))
  ELSE IF Len(Head(lines).value) = 0 THEN <<>>
  ELSE Head(lines).value \o loadHistoricalCostsAborting(Tail(lines))

\* loadHistoricalCosts: the entries pushed for the lines of the file.  Empty
\* lines are filtered out; a line JSON.parse throws on is skipped.
RECURSIVE loadHistoricalCosts(_)
loadHistoricalCosts(lines) ==
  IF Len(lines) = 0 THEN <<>>
  ELSE IF Head(lines).kind = "blank" THEN loadHistoricalCosts(Tail(lines))
  ELSE IF Len(Head(lines).value) = 0 THEN loadHistoricalCosts(Tail(lines))
  ELSE Head(lines).value \o loadHistoricalCosts(Tail(lines))

\* How the constructor can go: no file persistence (MCP_LOG_DIR is "none", or
\* the directory cannot be made), the file read, or readFileSync throwing.
StartupOutcomes == {"disabled", "load", "loadFailed"}

\* The entries and costsFile the constructor leaves for startup outcome o.
Constructed(o, lines) ==
  [costsFile |-> IF o = "disabled" THEN <<>> ELSE <<COSTS_FILE>>,
   entries |-> IF o = "load" THEN loadHistoricalCosts(lines) ELSE <<>>]

\* Entries providers hand to trackCost.
TrackedEntry(timestamp, model, operation, usage) ==
  LET cost == calculateCost(model, PromptTokens(usage), CompletionTokens(usage))
  IN [timestamp |-> timestamp, model |-> model, operation |-> operation,
      inputCost |-> cost.inputCost,
      outputCost |-> cost.outputCost, totalCost |-> cost.totalCost,
      estimated |-> Estimated(cost, usage), usage |-> usage]

EntryChoices ==
  { TrackedEntry(Now, "gpt-5.2", "generate_text", <<SomeUsage>>),
    TrackedEntry(Now, "o3-deep-research", "deep_research", <<>>),
    TrackedEntry(Now, "o4-mini-deep-research", "deep_research", <<SomeUsage>>) }

\* Lines the file can hold when the process first starts.
LineChoices ==
  { Stringify(TrackedEntry(0, "gpt-5.2", "web_search", <<SomeUsage>>)),
    TruncatedLine, BlankLine }

RECURSIVE SeqsUpTo(_, _)
SeqsUpTo(S, n) ==
  IF n = 0 THEN {<<>>}
  ELSE SeqsUpTo(S, n - 1) \cup
       {Append(q, x) : q \in {r \in SeqsUpTo(S, n - 1) : Len(r) = n - 1}, x \in S}

\* The process after construction of the cost tracker, with any file on disk.
LedgerInit ==
  /\ pc = "idle"
  /\ tool = "none"
  /\ opts = NoOpts
  /\ calls = 0
  /\ outcome = "none"
  /\ errMsg = ""
  /\ result = <<>>
  /\ usageLog = <<>>
  /\ ledgerAtStart = 0
  /\ creates = 0
  /\ retrieves = 0
  /\ elapsed = 0
  /\ responseId = ""
  /\ polled = <<>>
  /\ createError = <<>>
  /\ sleeps = <<>>
  /\ remoteCalls = <<>>
  /\ attempt = 0
  /\ delay = 0
  /\ slept = <<>>
  /\ lastError = <<>>
  /\ retryOpts = NoRetryOpts
  /\ invocations = <<>>
  /\ races = <<>>
  /\ disk \in SeqsUpTo(LineChoices, MaxLogLines)
  /\ \E o \in StartupOutcomes :
       /\ costsFile = Constructed(o, disk).costsFile
       /\ entries = Constructed(o, disk).entries
       /\ ledgerOps = <<o>>

OpsLeft == Len(ledgerOps) <= MaxLedgerOps

\* A provider records the cost of an operation that succeeded.
Record(entry) ==
  /\ pc = "idle"
  /\ OpsLeft
  /\ trackCost(entry)
  /\ UNCHANGED <<callVars, usageLog, researchVars, retryVars>>
  /\ UNCHANGED eventLoopVars

\* n.toString().padStart(width, "0")
RECURSIVE PadStart(_, _)
PadStart(str, width) == IF Len(str) >= width THEN str ELSE PadStart("0" \o str, width)

\* const formatCost = (n) => `$${n.toFixed(6)}`, of n micro-dollars
formatCost(n) ==
  "$" \o ToString(n \div 1000000) \o "." \o PadStart(ToString(n % 1000000), 6)

\* The response of get_cost_summary for summary (the JSON text, as its value).
SummaryResponse(summary, resetArg) ==
  [summary |-> [totalCost |-> formatCost(summary.totalCost),
                callCount |-> summary.callCount,
                estimatedCosts |-> formatCost(summary.estimatedCosts),
                since |-> summary.since,
                byModel |-> [m \in DOMAIN summary.byModel |->
                               formatCost(summary.byModel[m])],
                byOperation |-> [op \in DOMAIN summary.byOperation |->
                                   formatCost(summary.byOperation[op])]],
   wasReset |-> resetArg]

\* GetCostSummaryTool that resets before it takes the summary.
GetCostSummaryToolResetFirst(resetArg) ==
  /\ pc = "idle"
  /\ OpsLeft
  /\ result' = <<SummaryResponse(getSummary(IF resetArg THEN <<>> ELSE entries),
                                 resetArg)>>
  /\ IF resetArg
     THEN /\ reset
          /\ ledgerOps' = Append(ledgerOps, "reset")
     ELSE /\ ledgerOps' = Append(ledgerOps, "getSummary")
          /\ UNCHANGED <<entries, costsFile, disk>>
  /\ UNCHANGED <<pc, tool, opts, calls, outcome, errMsg, ledgerAtStart, usageLog,
                 researchVars, retryVars>>
  /\ UNCHANGED eventLoopVars

\* The get_cost_summary handler of the tool dispatcher: it has no await, so it
\* runs from the call to the response in one step.
GetCostSummaryTool(resetArg) ==
  /\ pc = "idle"
  /\ OpsLeft
  /\ result' = <<SummaryResponse(getSummary(entries), resetArg)>>
  /\ IF resetArg
     THEN /\ reset
          /\ ledgerOps' = Append(ledgerOps, "reset")
     ELSE /\ ledgerOps' = Append(ledgerOps, "getSummary")
          /\ UNCHANGED <<entries, costsFile, disk>>
  /\ UNCHANGED <<pc, tool, opts, calls, outcome, errMsg, ledgerAtStart, usageLog,
                 researchVars, retryVars>>
  /\ UNCHANGED eventLoopVars

\* The process ends and a new one starts: the constructor runs again.
Restart(o) ==
  /\ pc = "idle"
  /\ OpsLeft
  /\ costsFile' = Constructed(o, disk).costsFile
  /\ entries' = Constructed(o, disk).entries
  /\ ledgerOps' = Append(ledgerOps, o)
  /\ UNCHANGED <<disk, callVars, usageLog, researchVars, retryVars>>
  /\ UNCHANGED eventLoopVars

LedgerNext ==
  \/ \E e \in EntryChoices : Record(e)
  \/ \E r \in BOOLEAN : GetCostSummaryTool(r)
  \/ \E o \in StartupOutcomes : Restart(o)

LedgerSpec == LedgerInit /\ [][LedgerNext]_vars

\* The caller has the call's result; the process waits for the next call.
Return ==
  /\ pc = "done"
  /\ pc' = "idle"
  /\ tool' = "none"
  /\ opts' = NoOpts
  /\ outcome' = "none"
  /\ errMsg' = ""
  /\ result' = <<>>
  /\ creates' = 0
  /\ retrieves' = 0
  /\ elapsed' = 0
  /\ responseId' = ""
  /\ polled' = <<>>
  /\ createError' = <<>>
  /\ sleeps' = <<>>
  /\ remoteCalls' = <<>>
  /\ attempt' = 0
  /\ delay' = 0
  /\ slept' = <<>>
  /\ lastError' = <<>>
  /\ retryOpts' = NoRetryOpts
  /\ UNCHANGED <<calls, ledgerAtStart, ledgerVars>>
  /\ UNCHANGED eventLoopVars

Next ==
  \/ \E o \in ResearchOptions : Research(o)
  \/ \E id \in CreateIds, lat \in Latencies : CreateResolves(id, lat)
  \/ \E e \in StartErrors, lat \in Latencies : CreateRejects(e, lat)
  \/ \E r \in RetrieveResponses, lat \in Latencies : RetrieveResolves(r, lat)
  \/ \E e \in RetrieveErrors, lat \in Latencies : RetrieveRejects(e, lat)
  \/ \E late \in Latencies : SleepResolves(late)
  \/ \E o \in GenerateOptions : Generate(o)
  \/ \E o \in SearchOptions : Search(o)
  \/ \E o \in WithRetryOptions : WithRetry(o)
  \/ \E r \in CreateResponses : AttemptResolves(r)
  \/ \E e \in ApiErrors : AttemptRejects(e)
  \/ AttemptTimesOut
  \/ BackoffResolves
  \/ \E id \in ResponseIdArgs : CheckResearchTool(id)
  \/ Return

Spec == Init /\ [][Next]_vars

\* ------------------------------------------- concurrent tool invocations
\* Several invocations of the dispatcher at once on the one event loop: each
\* runs until its next await, and its continuation runs, without interruption,
\* when what it awaits has settled.  All of them share the costTracker singleton.

MaxInvocations == 3

\* What can be invoked: the operation and the model it was given.
InvocationChoices ==
  { [operation |-> "generate_text", model |-> "gpt-5.2"],
    [operation |-> "web_search", model |-> "gpt-5.2"],
    [operation |-> "deep_research", model |-> "o3-deep-research"] }

UsageChoices == {<<>>, <<SomeUsage>>}

Awaiting(i) == i \in DOMAIN invocations /\ invocations[i].pc = "awaiting"

\* A handler is invoked and runs up to its first await (the remote request).
Invoke(t) ==
  /\ Len(invocations) < MaxInvocations
  /\ invocations' = Append(invocations,
                           [operation |-> t.operation, model |-> t.model,
                            pc |-> "awaiting", usage |-> <<>>,
                            recordedAt |-> 0])
  /\ calls' = calls + 1
  /\ UNCHANGED <<pc, tool, opts, outcome, errMsg, result, ledgerAtStart, ledgerVars,
                 researchVars, retryVars, races>>

\* The remote call of invocation i has resolved: its continuation computes the
\* cost, records it, logs the usage and returns.
InvocationReturns(i, usage) ==
  /\ Awaiting(i)
  /\ trackCost(TrackedEntry(Now, invocations[i].model, invocations[i].operation, usage))
  /\ logUsage([operation |-> invocations[i].operation, model |-> invocations[i].model,
               success |-> TRUE, error |-> ""])
  /\ invocations' = [invocations EXCEPT ![i].pc = "returned", ![i].usage = usage,
                                        ![i].recordedAt = Now]
  /\ UNCHANGED <<callVars, researchVars, retryVars, races>>

\* The remote call of invocation i has failed for good: the catch logs the
\* failure and throws.
InvocationThrows(i, error) ==
  /\ Awaiting(i)
  /\ logUsage([operation |-> invocations[i].operation, model |-> invocations[i].model,
               success |-> FALSE, error |-> error.message])
  /\ invocations' = [invocations EXCEPT ![i].pc = "threw"]
  /\ UNCHANGED <<callVars, entries, costsFile, disk, ledgerOps, researchVars, retryVars,
                 races>>

ConcurrentNext ==
  \/ \E t \in InvocationChoices : Invoke(t)
  \/ \E i \in 1..MaxInvocations, u \in UsageChoices : InvocationReturns(i, u)
  \/ \E i \in 1..MaxInvocations, e \in {TimeoutError} : InvocationThrows(i, e)

ConcurrentSpec == Init /\ [][ConcurrentNext]_vars

\* ------------------------------------------------------- pure functions
\* calculateCost, categorizeError and the deep_research handler's conversion of
\* timeout_minutes, each applied to inputs drawn from bounded sets.

MaxTokens == 3

\* Model identifiers calculateCost is given: the priced ones, one that has no
\* price, and one that names an inherited member of the price table object.
ModelIdentifiers == DOMAIN OPENAI_PRICING \cup {"gpt-4o", "constructor"}

TokenCounts == 0..MaxTokens

\* Raw failures categorizeError is given (status 0: none attached).
RawFailures ==
  ApiErrors \cup
  { [status |-> 0, message |-> "Request flagged by moderation"],
    [status |-> 0, message |-> "Rejected by the safety system"],
    [status |-> 0, message |-> "content_policy_violation"],
    [status |-> 0, message |-> "Request blocked"],
    [status |-> 0, message |-> "Violates content policy"],
    [status |-> 0, message |-> "Request timed out."],
    [status |-> 0, message |-> "TIMEOUT: Operation timed out after 3600000ms"],
    [status |-> 401, message |-> "401 blocked by safety system: quota"],
    [status |-> 429, message |-> "429 Request timed out, blocked"],
    [status |-> 0, message |-> "safety: blocked by moderation"],
    [status |-> 0, message |-> "blocked: timed out"] }

\* timeout_minutes arguments of a deep_research call (<<>>: omitted).
TimeoutMinutesArgs == {<<>>} \cup {<<m>> : m \in {0, 1, 4, 5, 60, 120, 121, 500}}

\* const timeoutMs = (timeoutMinutes || 60) * 60 * 1000
timeoutMs(timeoutMinutes) ==
  (IF Len(timeoutMinutes) = 0 \/ timeoutMinutes[1] = 0 THEN 60 ELSE timeoutMinutes[1])
  * 60 * 1000

\* A pure function was applied: its arguments are in opts, its value in result.
Applied(name, args, value) ==
  /\ pc = "idle"
  /\ pc' = "done"
  /\ tool' = name
  /\ opts' = args
  /\ outcome' = "success"
  /\ result' = <<value>>
  /\ UNCHANGED <<calls, errMsg, ledgerAtStart, ledgerVars, researchVars, retryVars>>
  /\ UNCHANGED eventLoopVars

CalculateCost(model, promptTokens, completionTokens) ==
  Applied("calculateCost",
          [tool |-> "calculateCost", model |-> model,
           promptTokens |-> promptTokens, completionTokens |-> completionTokens],
          calculateCost(model, promptTokens, completionTokens))

CategorizeError(error) ==
  Applied("categorizeError", [tool |-> "categorizeError", error |-> error],
          categorizeError(error))

ConvertTimeout(timeoutMinutes) ==
  Applied("timeoutMs", [tool |-> "timeoutMs", timeoutMinutes |-> timeoutMinutes],
          timeoutMs(timeoutMinutes))

FunctionsNext ==
  \/ \E m \in ModelIdentifiers, p \in TokenCounts, c \in TokenCounts :
       CalculateCost(m, p, c)
  \/ \E e \in RawFailures : CategorizeError(e)
  \/ \E t \in TimeoutMinutesArgs : ConvertTimeout(t)
  \/ Return

FunctionsSpec == Init /\ [][FunctionsNext]_vars

\* ------------------------------------------------- research() on its own
\* The research controller alone, with what its liveness rests on: every create
\* and retrieve request settles, and every timer of sleep() fires.

RequestSettles ==
  \/ \E id \in CreateIds, lat \in Latencies : CreateResolves(id, lat)
  \/ \E e \in StartErrors, lat \in Latencies : CreateRejects(e, lat)
  \/ \E r \in RetrieveResponses, lat \in Latencies : RetrieveResolves(r, lat)
  \/ \E e \in RetrieveErrors, lat \in Latencies : RetrieveRejects(e, lat)

TimerFires == \E late \in Latencies : SleepResolves(late)

ResearchNext ==
  \/ \E o \in ResearchOptions : Research(o)
  \/ RequestSettles
  \/ TimerFires
  \/ Return

ResearchSpec ==
  Init /\ [][ResearchNext]_vars /\ WF_vars(RequestSettles) /\ WF_vars(TimerFires)

\* --------------------------------------------------- the race of withTimeout
\* withRetry(() => withTimeout(fn, timeoutMs), options) with the two events of
\* every attempt apart: the operation fn() settling and the timer firing.
\* Promise.race settles with the first of the two; the other one still happens.

\* Promise.race([fn().then(...), new Promise(... setTimeout ...)]) just started.
NewRace == [operation |-> "pending", timer |-> "pending", settled |-> <<>>]

\* A promise settles once: Wins holds forever after the first settlement.
WinsAlways(i) == TRUE

\* The event happening in race i is the first to settle it.
Wins(i) == Len(races[i].settled) = 0

\* withRetry(() => withTimeout(fn, timeoutMs), o): the first attempt starts.
RaceStart(o) ==
  /\ pc = "idle"
  /\ calls < MaxCalls
  /\ tool' = "with_retry"
  /\ opts' = o
  /\ calls' = calls + 1
  /\ ledgerAtStart' = Len(entries)
  /\ StartRetry(MergeRetryOptions(o))
  /\ races' = <<NewRace>>
  /\ UNCHANGED <<ledgerVars, retrieves, elapsed, responseId, polled, createError,
                 sleeps, invocations>>

\* withRetry's try block: the awaited race resolved with response.
RaceReturns(response) ==
  /\ pc = "attempt"
  /\ pc' = "done"
  /\ outcome' = "success"
  /\ errMsg' = ""
  /\ result' = <<[text |-> response.output_text, usage |-> response.usage]>>
  /\ UNCHANGED <<tool, opts, calls, ledgerAtStart, ledgerVars, researchVars, retryVars>>

\* withRetry's catch block: the awaited race rejected with error.
RaceThrows(error) ==
  /\ pc = "attempt"
  /\ lastError' = <<error>>
  /\ IF \/ BudgetExhausted(attempt, retryOpts.maxRetries)
        \/ ~isRetryable(error, retryOpts.retryableErrors)
     THEN Propagate(error)
     ELSE /\ pc' = "backoff"
          /\ UNCHANGED <<outcome, errMsg, result, ledgerVars>>
  /\ UNCHANGED <<tool, opts, calls, ledgerAtStart, researchVars, attempt, delay, slept,
                 retryOpts>>

\* An event of race i that comes after the race was settled changes nothing else.
Ignored == UNCHANGED <<callVars, ledgerVars, researchVars, retryVars>>

\* fn() of attempt i resolves with response.
OperationResolves(i, response) ==
  /\ i \in DOMAIN races
  /\ races[i].operation = "pending"
  /\ IF Wins(i)
     THEN /\ races' = [races EXCEPT ![i].operation = "resolved",
                                    ![i].settled = <<[by |-> "operation",
                                                      value |-> response.output_text]>>]
          /\ RaceReturns(response)
     ELSE /\ races' = [races EXCEPT ![i].operation = "resolved"]
          /\ Ignored
  /\ UNCHANGED invocations

\* fn() of attempt i rejects with error.
OperationRejects(i, error) ==
  /\ i \in DOMAIN races
  /\ races[i].operation = "pending"
  /\ IF Wins(i)
     THEN /\ races' = [races EXCEPT ![i].operation = "rejected",
                                    ![i].settled = <<[by |-> "operation",
                                                      value |-> error.message]>>]
          /\ RaceThrows(error)
     ELSE /\ races' = [races EXCEPT ![i].operation = "rejected"]
          /\ Ignored
  /\ UNCHANGED invocations

\* The timer of attempt i fires: the callback of setTimeout rejects its promise.
TimeoutFires(i) ==
  /\ i \in DOMAIN races
  /\ races[i].timer = "pending"
  /\ IF Wins(i)
     THEN /\ races' = [races EXCEPT ![i].timer = "fired",
                                    ![i].settled = <<[by |-> "timer",
                                                      value |-> TimeoutError.message]>>]
          /\ RaceThrows(TimeoutError)
     ELSE /\ races' = [races EXCEPT ![i].timer = "fired"]
          /\ Ignored
  /\ UNCHANGED invocations

\* The sleep before a retry ends: the next attempt starts its own race.
RaceBackoffResolves ==
  /\ pc = "backoff"
  /\ slept' = Append(slept, delay)
  /\ delay' = NextDelay(delay, retryOpts)
  /\ attempt' = attempt + 1
  /\ creates' = creates + 1
  /\ remoteCalls' = Append(remoteCalls, "responses.create")
  /\ races' = Append(races, NewRace)
  /\ pc' = "attempt"
  /\ UNCHANGED <<tool, opts, calls, outcome, errMsg, result, ledgerAtStart, ledgerVars,
                 retrieves, elapsed, responseId, polled, createError, sleeps, lastError,
                 retryOpts, invocations>>

RaceNext ==
  \/ \E o \in WithRetryOptions : RaceStart(o)
  \/ \E i \in DOMAIN races, r \in CreateResponses : OperationResolves(i, r)
  \/ \E i \in DOMAIN races, e \in ApiErrors : OperationRejects(i, e)
  \/ \E i \in DOMAIN races : TimeoutFires(i)
  \/ RaceBackoffResolves
  \/ Return

RaceSpec == Init /\ [][RaceNext]_vars

\* ------------------------------------------------------------- properties

NonTerminal(p) == p.status \notin {"completed", "failed", "threw"}
Ended == pc = "done"
ResearchEnded == Ended /\ tool = "deep_research"
ThroughRetry == tool \in {"generate_text", "web_search", "with_retry"}
Controllers == {"generate_text", "web_search"}
Raised(kind) == Ended /\ outcome = "error" /\ StartsWith(errMsg, kind \o ":")

\* C1: when the first n retrievals of a research() call returned a non-terminal
\* state and retrieval n+1 returned completed with non-empty output, the call
\* returned success (no error) after exactly n+1 retrievals.
C1_SuccessAfterNPlusOneRetrievals ==
  (/\ ResearchEnded
   /\ Len(polled) > 0
   /\ \A i \in 1..(Len(polled) - 1) : NonTerminal(polled[i])
   /\ Last(polled).status = "completed"
   /\ Last(polled).hasText)
  => /\ outcome = "success"
     /\ errMsg = ""
     /\ retrieves = Len(polled)
     /\ Len(result) = 1
     /\ result[1].status = "completed"

\* C1 witness: the polled states [in_progress, in_progress, completed] gave
\* success after 3 retrievals.
C1_Witness ==
  /\ ResearchEnded
  /\ Len(polled) = 3
  /\ polled[1].status = "in_progress"
  /\ polled[2].status = "in_progress"
  /\ polled[3].status = "completed"
  /\ outcome = "success"
  /\ retrieves = 3

\* C2: a research() call whose retrievals all returned in_progress ends with
\* TIMEOUT once the elapsed time exceeds the overall timeout, and every TIMEOUT
\* failure research() raises carries the job identifier the start request returned.
C2_TimeoutCarriesJobId ==
  /\ (/\ ResearchEnded
      /\ responseId # ""
      /\ \A i \in 1..Len(polled) : polled[i].status = "in_progress")
     => /\ Raised("TIMEOUT")
        /\ elapsed > opts.timeoutMs
  /\ (ResearchEnded /\ Raised("TIMEOUT"))
     => /\ responseId # ""
        /\ Includes(errMsg, responseId)

\* C3: an error thrown by the retrieval call never ends the poll loop (the
\* controller goes to sleep and polls again), and a call whose retrieval threw
\* once and then returned completed with output ends in success.
C3_PollErrorNeverEndsLoop ==
  /\ []((/\ ResearchEnded
         /\ Len(polled) = 2
         /\ polled[1].status = "threw"
         /\ polled[2].status = "completed"
         /\ polled[2].hasText)
        => outcome = "success")
  /\ [][(/\ pc = "retrieving"
         /\ Len(polled') = Len(polled) + 1
         /\ Last(polled').status = "threw")
        => pc' = "sleeping"]_vars

\* C4: on every terminal outcome of research(), success or failure, one ledger
\* record has been appended for the operation.
C4_LedgerRecordOnEveryOutcome ==
  (/\ ResearchEnded
   /\ \/ outcome = "success"
      \/ Raised("RESEARCH_FAILED")
      \/ Raised("API_ERROR")
      \/ Raised("TIMEOUT"))
  => /\ Len(entries) = ledgerAtStart + 1
     /\ Last(entries).operation = "deep_research"

\* C5: a check_research call with a job identifier performs exactly one retrieval
\* of the remote state and returns a result reporting one of the three job states.
C5_CheckResearchRetrievesOnce ==
  (Ended /\ tool = "check_research" /\ opts.response_id # "")
  => /\ retrieves = 1
     /\ outcome = "success"
     /\ Len(result) = 1
     /\ result[1].status \in {"in_progress", "completed", "failed"}

\* C6: withRetry makes attempt k+1 only after k failed attempts; it sleeps before a
\* retry only after a retryable failure with budget left; and when it propagates
\* a retryable failure it has made exactly maxRetries + 1 attempts (3 for the
\* budget of 2 that generate and search use), so a non-retryable failure is
\* propagated without a further attempt.
C6_AttemptBudget ==
  (ThroughRetry /\ Len(lastError) = 1)
  => /\ creates = attempt + 1
     /\ attempt <= retryOpts.maxRetries
     /\ (tool \in Controllers => retryOpts.maxRetries = 2)
     /\ (pc = "backoff"
         => /\ isRetryable(lastError[1], retryOpts.retryableErrors)
            /\ attempt < retryOpts.maxRetries)
     /\ (Ended /\ outcome = "error"
         => IF isRetryable(lastError[1], retryOpts.retryableErrors)
            THEN creates = retryOpts.maxRetries + 1
            ELSE pc # "backoff")

\* C6 witness: generate() gave up on a retryable failure after 3 attempts.
C6_Witness ==
  /\ Ended
  /\ tool = "generate_text"
  /\ outcome = "error"
  /\ Len(lastError) = 1
  /\ isRetryable(lastError[1], retryOpts.retryableErrors)
  /\ creates = 3
  /\ Len(slept) = 2

\* C7: in generate() and search() a failure the classifier labels AUTH_ERROR is
\* never followed by a retry, whatever else its message contains, and a call
\* rejected with VALIDATION_ERROR has issued no remote request.
C7_AuthAndValidationNeverRetried ==
  /\ (tool \in Controllers /\ Len(lastError) = 1 /\ pc = "backoff")
     => categorizeError(lastError[1]) # "AUTH_ERROR"
  /\ (tool \in Controllers /\ Raised("VALIDATION_ERROR")) => creates = 0

\* A rate-limit failure or a generic transport failure: status 429/502/503, a
\* failure the classifier labels RATE_LIMIT, a connection reset, a transport
\* timeout or a DNS failure.
IsTransient(error) ==
  \/ error.status \in {429, 502, 503}
  \/ categorizeError(error) = "RATE_LIMIT"
  \/ Includes(error.message, "ECONNRESET")
  \/ Includes(error.message, "ETIMEDOUT")
  \/ Includes(error.message, "ENOTFOUND")

\* C8: generate() and search() surface a rate-limit or generic transport failure
\* only after the retry budget is exhausted.
C8_TransientRetriedToBudget ==
  (/\ Ended
   /\ tool \in Controllers
   /\ outcome = "error"
   /\ Len(lastError) = 1
   /\ IsTransient(lastError[1]))
  => creates = retryOpts.maxRetries + 1

\* The ParameterSet invariants of a generate() request, as the specification
\* states them.
ViolatesParameterSet(o) ==
  LET effort == IF Len(o.reasoningEffort) = 0 THEN "none" ELSE o.reasoningEffort[1]
  IN \/ o.model = "gpt-5.2-pro" /\ effort \in {"none", "low"}
     \/ effort # "none" /\ Len(o.temperature) = 1
     \/ Len(o.jsonSchema) = 1 /\ o.model \notin {"gpt-5.2", "gpt-5.2-chat-latest"}

\* C9: a generate() request that violates a ParameterSet invariant is rejected
\* with VALIDATION_ERROR before any remote request is issued, and a request that
\* satisfies all three is never rejected with VALIDATION_ERROR.
C9_ValidationBeforeRequest ==
  (tool = "generate_text" /\ pc # "idle")
  => IF ViolatesParameterSet(opts)
     THEN Raised("VALIDATION_ERROR") /\ creates = 0
     ELSE ~Raised("VALIDATION_ERROR") /\ creates >= 1

\* C9 witness: {pro model, reasoningEffort low} was rejected without a request.
C9_Witness ==
  /\ tool = "generate_text"
  /\ opts.model = "gpt-5.2-pro"
  /\ opts.reasoningEffort = <<"low">>
  /\ Raised("VALIDATION_ERROR")
  /\ creates = 0

\* C10: a generate, search or research call that ended in success has appended
\* exactly one ledger entry, of its own operation, however many attempts or polls
\* it took; while a call is in flight it has appended none.
C10_OneEntryPerSuccess ==
  tool \in Controllers \cup {"deep_research"}
  => /\ (Ended /\ outcome = "success"
         => /\ Len(entries) = ledgerAtStart + 1
            /\ Last(entries).operation = tool)
     /\ (~Ended => Len(entries) = ledgerAtStart)

\* C10 witness: generate() succeeded on its third attempt and the ledger grew by one.
C10_Witness ==
  /\ Ended
  /\ tool = "generate_text"
  /\ outcome = "success"
  /\ creates = 3
  /\ Len(entries) = ledgerAtStart + 1

\* C11: a research() call issues exactly one create request and never a second
\* one; when that request fails the call ends at once, without any retrieval,
\* with AUTH_ERROR for a 401 / API-key failure, RATE_LIMIT for status 429 and
\* API_ERROR otherwise; a response without a job identifier ends the call with
\* API_ERROR, again without any retrieval.
ExpectedStartKind(error) ==
  IF error.status = 401 \/ Includes(error.message, "API key") THEN "AUTH_ERROR"
  ELSE IF error.status = 429 THEN "RATE_LIMIT"
  ELSE "API_ERROR"

StartedWithoutId ==
  ResearchEnded /\ responseId = "" /\ Len(createError) = 0

C11_OneCreateNeverRetried ==
  (tool = "deep_research" /\ pc # "idle") =>
    /\ creates = 1
    /\ Head(remoteCalls) = "responses.create"
    /\ \A i \in 2..Len(remoteCalls) : remoteCalls[i] # "responses.create"
    /\ Len(createError) # 0 =>
         /\ Raised(ExpectedStartKind(createError[1]))
         /\ retrieves = 0
         /\ Len(remoteCalls) = 1
    /\ StartedWithoutId => (Raised("API_ERROR") /\ retrieves = 0)

C11_Witness ==
  /\ ResearchEnded
  /\ Len(createError) # 0
  /\ createError[1].status = 429
  /\ Raised("RATE_LIMIT")
  /\ creates = 1

\* C12: a retrieval that reports completed with empty or absent output text is
\* the last retrieval of the call and ends it with API_ERROR; a call never
\* succeeds with empty text.
CompletedEmpty(p) == p.status = "completed" /\ ~p.hasText

C12_CompletedWithoutTextIsApiError ==
  tool = "deep_research" =>
    /\ \A i \in 1..Len(polled) :
         CompletedEmpty(polled[i]) =>
           /\ i = Len(polled)
           /\ retrieves = i
           /\ Raised("API_ERROR")
    /\ (Ended /\ outcome = "success") => result[1].text # ""

C12_Witness ==
  /\ ResearchEnded
  /\ Len(polled) >= 2
  /\ CompletedEmpty(Last(polled))
  /\ Raised("API_ERROR")

\* C13: a retrieval that reports failed is the last retrieval of the call and
\* ends it with RESEARCH_FAILED followed by the message the remote supplied, or
\* by a generic message when it supplied none.
C13_FailedIsResearchFailed ==
  tool = "deep_research" =>
    \A i \in 1..Len(polled) :
      polled[i].status = "failed" =>
        /\ i = Len(polled)
        /\ retrieves = i
        /\ Ended
        /\ outcome = "error"
        /\ errMsg = "RESEARCH_FAILED: " \o
                       (IF Len(polled[i].error) = 0
                        THEN "Research failed with unknown error"
                        ELSE polled[i].error[1])

C13_Witness ==
  /\ ResearchEnded
  /\ Len(polled) >= 2
  /\ Last(polled).status = "failed"
  /\ Len(Last(polled).error) # 0
  /\ errMsg = "RESEARCH_FAILED: quota exhausted"

\* C14: every retrieval that returns a status other than completed or failed,
\* and every retrieval that throws, is followed by a sleep; every sleep of a
\* call is for the same pollInterval; there is exactly one sleep between two
\* consecutive retrievals.
PollsAgain(p) == p.status \notin {"completed", "failed"}

C14_PollCadence ==
  tool = "deep_research" =>
    /\ \A i \in 1..Len(sleeps) : sleeps[i] = PollIntervalOf(opts)
    /\ \A i \in 1..Len(polled) : PollsAgain(polled[i]) => Len(sleeps) >= i
    /\ Len(sleeps) <= Len(polled)
    /\ pc = "retrieving" => Len(sleeps) = retrieves - 1

\* C15: the ledger record of a successful research operation has estimated set
\* whenever the remote returned no usage data, even for a priced model, and has
\* it clear exactly when the model is priced and usage was returned.
Priced(model) == model \in DOMAIN OPENAI_PRICING

C15_EstimatedWithoutUsage ==
  (ResearchEnded /\ outcome = "success") =>
    /\ Len(entries) = ledgerAtStart + 1
    /\ Last(entries).estimated =
         ~(Priced(opts.model) /\ Len(result[1].usage) # 0)
    /\ Last(entries).usage = result[1].usage

C15_Witness ==
  /\ ResearchEnded
  /\ outcome = "success"
  /\ Priced(opts.model)
  /\ Len(result[1].usage) = 0
  /\ Last(entries).estimated

\* C16: the remote calls of a research() call are one create followed by
\* retrievals only, never a cancellation; once the call has ended, with TIMEOUT
\* or otherwise, every call it issued has been answered and it issues no other.
C16_NeverCancelsRemoteJob ==
  (tool = "deep_research" /\ pc # "idle") =>
    /\ Len(remoteCalls) = creates + retrieves
    /\ remoteCalls[1] = "responses.create"
    /\ \A i \in 2..Len(remoteCalls) : remoteCalls[i] = "responses.retrieve"
    /\ Ended => Len(remoteCalls) = 1 + Len(polled)

C16_Witness ==
  /\ ResearchEnded
  /\ Raised("TIMEOUT")
  /\ Includes(errMsg, responseId)
  /\ Len(polled) >= 2
  /\ remoteCalls = <<"responses.create", "responses.retrieve", "responses.retrieve">>

\* C17: the executor sleeps once before every retry; the first sleep is
\* initialDelay and every later one is the previous one times backoffMultiplier,
\* capped at maxDelay; the next delay is always that capped product; with the
\* defaults the sleeps are 1s, 2s, 4s, ... and never above 30s.
CappedProduct(d, o) ==
  IF d * o.backoffMultiplier > o.maxDelayMs THEN o.maxDelayMs
  ELSE d * o.backoffMultiplier

DefaultSleeps == <<1000, 2000, 4000, 8000, 16000, 30000>>

C17_BackoffSequence ==
  (ThroughRetry /\ pc \in {"attempt", "backoff", "done"} /\ creates > 0) =>
    /\ Len(slept) = attempt
    /\ Len(slept) > 0 => slept[1] = retryOpts.initialDelayMs
    /\ \A i \in 2..Len(slept) : slept[i] = CappedProduct(slept[i - 1], retryOpts)
    /\ delay = IF Len(slept) = 0 THEN retryOpts.initialDelayMs
               ELSE CappedProduct(Last(slept), retryOpts)
    /\ (/\ retryOpts.initialDelayMs = 1000
        /\ retryOpts.backoffMultiplier = 2
        /\ retryOpts.maxDelayMs = 30000) =>
         \A i \in 1..Len(slept) :
           /\ slept[i] <= 30000
           /\ i <= Len(DefaultSleeps) => slept[i] = DefaultSleeps[i]

C17_Witness ==
  /\ tool = "with_retry"
  /\ Len(slept) = 3
  /\ slept[2] * retryOpts.backoffMultiplier > retryOpts.maxDelayMs
  /\ slept[3] = retryOpts.maxDelayMs
  /\ pc = "attempt"

\* C18: every attempt can lose the race against its own timeout; an attempt that
\* does is failed with a TIMEOUT error, and that error gets the decision any
\* failure gets: a retry when it matches a retryable pattern and budget remains,
\* propagation otherwise, which generate() and search() surface as TIMEOUT.
TimedOut == Len(lastError) # 0 /\ lastError[1] = TimeoutError

C18_TimedOutAttemptSameDecision ==
  (ThroughRetry /\ TimedOut /\ (pc = "backoff" \/ (Ended /\ outcome = "error"))) =>
    /\ StartsWith(lastError[1].message, "TIMEOUT:")
    /\ creates = attempt + 1
    /\ (pc = "backoff") =
         (/\ attempt < retryOpts.maxRetries
          /\ \E pattern \in retryOpts.retryableErrors :
               Includes(ToLowerCase(lastError[1].message), ToLowerCase(pattern)))
    /\ pc = "done" =>
         /\ tool \in Controllers => Raised("TIMEOUT")
         /\ tool = "with_retry" => errMsg = lastError[1].message

C18_Witness ==
  /\ Ended
  /\ tool = "generate_text"
  /\ TimedOut
  /\ attempt = 1
  /\ Raised("TIMEOUT")

\* A timed-out attempt that matched a retryable pattern and was tried again.
C18_RetriedWitness ==
  /\ tool = "with_retry"
  /\ TimedOut
  /\ pc = "attempt"
  /\ attempt = 2
  /\ "TIMEOUT" \in retryOpts.retryableErrors

\* The entries of the well-formed lines of a file, in file order.
JsonValues(lines) ==
  LET json == SelectSeq(lines, LAMBDA l : l.kind = "json")
  IN [i \in 1..Len(json) |-> json[i].value[1]]

IsPrefix(a, b) == Len(a) <= Len(b) /\ SubSeq(b, 1, Len(a)) = a

WasReset == \E i \in 1..Len(ledgerOps) : ledgerOps[i] = "reset"

\* C19: right after reset() the ledger is empty and summary().callCount is 0;
\* reset() leaves the durable log as it was, and no operation ever removes or
\* changes a line of it; a restart that reloads the log after a reset has
\* every entry that was persisted, those recorded before the reset included.
C19_ResetKeepsDurableLog ==
  /\ [](Last(ledgerOps) = "reset" =>
          /\ entries = <<>>
          /\ getSummary(entries).callCount = 0)
  /\ [][(ledgerOps' # ledgerOps /\ Last(ledgerOps') = "reset") => disk' = disk]_vars
  /\ [][IsPrefix(disk, disk')]_vars
  /\ []((WasReset /\ Last(ledgerOps) = "load") =>
          /\ Len(entries) = Len(JsonValues(disk))
          /\ \A i \in 1..Len(entries) : entries[i] = JsonValues(disk)[i])

C19_Witness ==
  /\ Len(ledgerOps) = 4
  /\ ledgerOps[2] = "trackCost"
  /\ ledgerOps[3] = "reset"
  /\ ledgerOps[4] = "load"
  /\ Len(entries) > 0
  /\ Last(entries).timestamp > 0

\* C20: after a startup that read the durable log, the ledger holds the entries
\* of exactly the well-formed lines, in file order, whatever malformed lines
\* stand between them; after a startup that could not read the file the ledger
\* is empty and the process is up.
C20_ReloadSkipsMalformedLines ==
  /\ Last(ledgerOps) = "load" => entries = JsonValues(disk)
  /\ Last(ledgerOps) = "loadFailed" =>
       /\ entries = <<>>
       /\ pc = "idle"
       /\ costsFile = <<COSTS_FILE>>

C20_Witness ==
  /\ Last(ledgerOps) = "load"
  /\ Len(disk) = 3
  /\ disk[1].kind = "json"
  /\ disk[2].kind = "truncated"
  /\ disk[3].kind = "json"
  /\ Len(entries) = 2
  /\ entries[2] = disk[3].value[1]

\* C21: every record() adds its entry to the in-memory ledger and returns to
\* its caller without raising, whether the line was appended to the durable log
\* or the append failed; the durable log is then either extended by that line
\* or left as it was.
Recorded == ledgerOps' # ledgerOps /\ Last(ledgerOps') = "trackCost"

C21_PersistenceFailureSwallowed ==
  [][Recorded =>
       /\ Len(entries') = Len(entries) + 1
       /\ SubSeq(entries', 1, Len(entries)) = entries
       /\ \/ disk' = disk
          \/ disk' = Append(disk, Stringify(Last(entries')))
       /\ pc' = pc
       /\ outcome' = outcome
       /\ errMsg' = errMsg]_vars

\* A record() whose append failed: the entry is in memory and not in the file.
C21_Witness ==
  /\ ledgerOps = <<"load", "trackCost">>
  /\ costsFile = <<COSTS_FILE>>
  /\ Len(entries) = Len(JsonValues(disk)) + 1
  /\ Last(entries).timestamp > 0
  /\ pc = "idle"
  /\ outcome = "none"

\* Sum of the totalCost of the entries at the positions in I.
RECURSIVE SumAt(_, _)
SumAt(es, I) ==
  IF I = {} THEN 0
  ELSE LET i == CHOOSE j \in I : TRUE
       IN es[i].totalCost + SumAt(es, I \ {i})

Positions == 1..Len(entries)

\* C22: whatever was recorded, reset and reloaded, summary() reports callCount
\* as the number of in-memory entries, totalCost as the sum of their totalCost,
\* one byModel and one byOperation bucket per model and operation present, each
\* the sum over its entries, estimatedCosts as the sum over the entries flagged
\* estimated, and since as the timestamp of the first entry, or the current
\* time when there is none.
C22_SummaryAggregates ==
  LET summary == getSummary(entries)
  IN /\ summary.callCount = Len(entries)
     /\ summary.totalCost = SumAt(entries, Positions)
     /\ DOMAIN summary.byModel = {entries[i].model : i \in Positions}
     /\ \A m \in DOMAIN summary.byModel :
          summary.byModel[m] = SumAt(entries, {i \in Positions : entries[i].model = m})
     /\ DOMAIN summary.byOperation = {entries[i].operation : i \in Positions}
     /\ \A op \in DOMAIN summary.byOperation :
          summary.byOperation[op] =
            SumAt(entries, {i \in Positions : entries[i].operation = op})
     /\ summary.estimatedCosts = SumAt(entries, {i \in Positions : entries[i].estimated})
     /\ summary.since = IF entries = <<>> THEN Now ELSE entries[1].timestamp

\* Two entries of different models and operations recorded after a reset.
C22_Witness ==
  /\ WasReset
  /\ Len(entries) = 2
  /\ entries[1].model # entries[2].model
  /\ entries[1].totalCost > 0
  /\ entries[2].totalCost > 0
  /\ getSummary(entries).totalCost = entries[1].totalCost + entries[2].totalCost
  /\ getSummary(entries).since = entries[1].timestamp

\* C23: for a model identifier that is not in the price table calculateCost
\* returns estimated = TRUE and prices the tokens with the highest prices of the
\* table, so that no priced model would cost more for the same token counts;
\* for a model in the table it returns estimated = FALSE and the table's prices.
HighestPrice(field) ==
  CHOOSE x \in {OPENAI_PRICING[m][field] : m \in DOMAIN OPENAI_PRICING} :
    \A m \in DOMAIN OPENAI_PRICING : OPENAI_PRICING[m][field] <= x

Nearest(amount, raw) == 100 * amount - raw \in (0 - 50)..50

PricedWith(cost, pricing, promptTokens, completionTokens) ==
  /\ Nearest(cost.inputCost, promptTokens * pricing.input)
  /\ Nearest(cost.outputCost, completionTokens * pricing.output)
  /\ Nearest(cost.totalCost,
             promptTokens * pricing.input + completionTokens * pricing.output)

C23_FallbackForUnknownModels ==
  (Ended /\ tool = "calculateCost") =>
    LET cost == result[1]
        p == opts.promptTokens
        c == opts.completionTokens
    IN IF opts.model \in DOMAIN OPENAI_PRICING
       THEN /\ ~cost.estimated
            /\ PricedWith(cost, OPENAI_PRICING[opts.model], p, c)
       ELSE /\ cost.estimated
            /\ PricedWith(cost, [input |-> HighestPrice("input"),
                                 output |-> HighestPrice("output")], p, c)
            /\ \A m \in DOMAIN OPENAI_PRICING :
                 cost.totalCost >= calculateCost(m, p, c).totalCost

\* C24: the inputCost, outputCost and totalCost of every recorded entry are each
\* the nearest whole number of 1e-6 units to the unrounded amount, rounding a
\* rounded amount again changes nothing, totalCost differs from inputCost +
\* outputCost by at most one unit, and the total of summary() differs from the
\* sum of the entries' rounded totals by at most one unit.
WithinOneUnit(a, b) == a - b \in (0 - 1)..1

RoundedOnce(e) ==
  LET pricing == OPENAI_PRICING[e.model]
      raw == [inputCost |-> PromptTokens(e.usage) * pricing.input,
              outputCost |-> CompletionTokens(e.usage) * pricing.output]
  IN /\ Nearest(e.inputCost, raw.inputCost)
     /\ Nearest(e.outputCost, raw.outputCost)
     /\ Nearest(e.totalCost, raw.inputCost + raw.outputCost)
     /\ \A f \in {"inputCost", "outputCost", "totalCost"} :
          roundToMicro(100 * e[f]) = e[f]

C24_RoundingWithinOneUnit ==
  /\ \A i \in Positions :
       /\ RoundedOnce(entries[i])
       /\ WithinOneUnit(entries[i].totalCost,
                        entries[i].inputCost + entries[i].outputCost)
  /\ WithinOneUnit(getSummary(entries).totalCost, SumAt(entries, Positions))

C24_Witness ==
  /\ Len(entries) >= 2
  /\ \E i \in Positions :
       /\ entries[i].timestamp > 0
       /\ entries[i].inputCost > 0
       /\ 100 * entries[i].inputCost
            # PromptTokens(entries[i].usage) * OPENAI_PRICING[entries[i].model].input
  /\ getSummary(entries).totalCost > Last(entries).totalCost

\* C25: categorizeError returns the kind of the first rule, in the order
\* authentication, rate/quota, safety/moderation, content policy, deadline
\* exceeded, that the failure matches, and API_ERROR when it matches none; the
\* kind depends on nothing but the failure.
ClassifierRules ==
  << [kind |-> "AUTH_ERROR", statuses |-> {401},
      signals |-> {"API key", "unauthorized", "Incorrect API key"}],
     [kind |-> "RATE_LIMIT", statuses |-> {429},
      signals |-> {"rate", "quota", "too many requests"}],
     [kind |-> "SAFETY_BLOCK", statuses |-> {},
      signals |-> {"safety", "content_policy", "moderation"}],
     [kind |-> "CONTENT_BLOCKED", statuses |-> {},
      signals |-> {"blocked", "content policy"}],
     [kind |-> "TIMEOUT", statuses |-> {},
      signals |-> {"TIMEOUT", "timed out"}] >>

MatchesRule(error, rule) ==
  \/ error.status \in rule.statuses
  \/ \E signal \in rule.signals : Includes(error.message, signal)

FirstMatchingKind(error) ==
  LET matching == {i \in 1..Len(ClassifierRules) : MatchesRule(error, ClassifierRules[i])}
  IN IF matching = {} THEN "API_ERROR"
     ELSE ClassifierRules[CHOOSE i \in matching : \A j \in matching : i <= j].kind

C25_FirstMatchingRuleWins ==
  (Ended /\ tool = "categorizeError") =>
    /\ result[1] = FirstMatchingKind(opts.error)
    /\ result[1] = categorizeError(opts.error)

\* C26: when a remote call of generate() or search() has failed for good, the
\* kind at the head of the raised message is the kind categorizeError assigns
\* to the raw failure.
RemoteFailure == Ended /\ tool \in Controllers /\ outcome = "error" /\ Len(lastError) # 0

C26_ProviderKindIsClassifierKind ==
  RemoteFailure => Raised(categorizeError(lastError[1]))

\* C27: every error response of the dispatcher has the error flag set and a
\* text of the form "<ERROR_KIND>: <message>" with a kind of the closed
\* taxonomy.
ErrorKinds ==
  {"AUTH_ERROR", "RATE_LIMIT", "SAFETY_BLOCK", "CONTENT_BLOCKED", "TIMEOUT",
   "VALIDATION_ERROR", "API_ERROR", "RESEARCH_FAILED"}

C27_ErrorResponsesKindPrefixed ==
  (Ended /\ outcome = "error" /\ tool \in DispatcherTools) =>
    /\ ToolResponse.isError
    /\ \E kind \in ErrorKinds : StartsWith(ToolResponse.text, kind \o ": ")

\* C28: the step in which generate() or search() gives up on a failed remote
\* call appends exactly one usage-log entry, with success = FALSE, adds no cost
\* entry, and raises a message that starts with the kind the failure is
\* classified as; no step of the call before it writes to either log.
GivesUp == tool \in Controllers /\ pc = "attempt" /\ pc' = "done" /\ outcome' = "error"

StillTrying == tool' \in Controllers /\ pc' \in {"attempt", "backoff"}

C28_FailureLoggedOnceNoCost ==
  [][/\ GivesUp =>
          /\ usageLog' = Append(usageLog, Last(usageLog'))
          /\ ~Last(usageLog').success
          /\ entries' = entries
          /\ StartsWith(errMsg', categorizeError(lastError'[1]) \o ": ")
     /\ StillTrying => usageLog' = usageLog /\ entries' = entries]_vars

\* C29: the deep_research handler converts an omitted timeout_minutes to 60
\* minutes, and every supplied timeout_minutes to a timeout of at least 5 and at
\* most 120 minutes.
MIN_TIMEOUT_MINUTES == 5
MAX_TIMEOUT_MINUTES == 120
ONE_MINUTE_MS == 60000

C29_TimeoutWithinBounds ==
  (Ended /\ tool = "timeoutMs") =>
    IF Len(opts.timeoutMinutes) = 0
    THEN result[1] = 60 * ONE_MINUTE_MS
    ELSE /\ result[1] >= MIN_TIMEOUT_MINUTES * ONE_MINUTE_MS
         /\ result[1] <= MAX_TIMEOUT_MINUTES * ONE_MINUTE_MS

\* C30: a search() request whose allowedDomains has more than 100 entries, or an
\* entry with a URI scheme (a scheme name followed by "://"), is rejected with
\* VALIDATION_ERROR before any remote request is issued; a list of at most 100
\* entries without a scheme is never rejected with VALIDATION_ERROR.
HasScheme(domain) ==
  \E i \in 1..Len(domain) : i + 2 <= Len(domain) /\ SubSeq(domain, i, i + 2) = "://"

ViolatesDomainRules(o) ==
  \/ Len(o.allowedDomains) > 100
  \/ \E i \in 1..Len(o.allowedDomains) : HasScheme(o.allowedDomains[i])

C30_DomainsValidatedBeforeRequest ==
  (tool = "web_search" /\ pc # "idle")
  => IF ViolatesDomainRules(opts)
     THEN Raised("VALIDATION_ERROR") /\ creates = 0 /\ remoteCalls = <<>>
     ELSE ~Raised("VALIDATION_ERROR") /\ creates >= 1

C30_Witness ==
  /\ tool = "web_search"
  /\ opts.allowedDomains = <<"wikipedia.org", "https://github.com">>
  /\ errMsg = "VALIDATION_ERROR: Domains must not include scheme (https://). "
              \o "Got: https://github.com"
  /\ Raised("VALIDATION_ERROR")
  /\ creates = 0

\* C31: when citation was requested, the sources search() returns are the
\* {url, title?} of every source of the response's web search calls, in the
\* order of the response and with duplicates kept; when there is none, or
\* citation was not requested, the result has no sources field.
IsPayload(item) == item.type = "web_search_call" /\ Len(item.sources) # 0

RECURSIVE PayloadSources(_, _)
PayloadSources(items, n) ==
  IF n = 0 THEN <<>>
  ELSE PayloadSources(items, n - 1) \o
       (IF IsPayload(items[n])
        THEN [k \in 1..Len(items[n].sources[1]) |->
                [url |-> items[n].sources[1][k].url,
                 title |-> items[n].sources[1][k].title]]
        ELSE <<>>)

CitedSources(response) ==
  IF Len(response.output) = 0 THEN <<>>
  ELSE PayloadSources(response.output[1], Len(response.output[1]))

C31_SourcesInResponseOrder ==
  [][\A r \in CreateResponses :
       (tool = "web_search" /\ AttemptResolves(r)) =>
         IF opts.includeSources /\ CitedSources(r) # <<>>
         THEN result'[1].sources = <<CitedSources(r)>>
         ELSE result'[1].sources = <<>>]_vars

C31_Witness ==
  /\ Ended
  /\ tool = "web_search"
  /\ outcome = "success"
  /\ opts.includeSources
  /\ Len(result[1].sources) = 1
  /\ Len(result[1].sources[1]) = 4
  /\ result[1].sources[1][1] = result[1].sources[1][2]
  /\ result[1].sources[1][3] = [url |-> "https://b.example", title |-> <<>>]
  /\ result[1].sources[1][4].url = "https://c.example"

\* C32: however the continuations of concurrent invocations interleave, the
\* in-memory ledger holds exactly one entry for each invocation that recorded,
\* and that entry is the one it recorded; so it does once all have finished.
Returned == {i \in DOMAIN invocations : invocations[i].pc = "returned"}

EntriesOf(i) == {p \in Positions : entries[p].timestamp = invocations[i].recordedAt}

C32_OneEntryPerRecordCall ==
  /\ Len(entries) = Cardinality(Returned)
  /\ \A i \in Returned :
       /\ Cardinality(EntriesOf(i)) = 1
       /\ \A p \in EntriesOf(i) :
            entries[p] = TrackedEntry(invocations[i].recordedAt, invocations[i].model,
                                      invocations[i].operation, invocations[i].usage)

\* Every invocation recorded, and the one invoked first was not the first to.
C32_Witness ==
  /\ Len(invocations) = MaxInvocations
  /\ Returned = DOMAIN invocations
  /\ Len(entries) = MaxInvocations
  /\ entries[1].timestamp # invocations[1].recordedAt

\* C33: the response of get_cost_summary shows the summary of the entries
\* recorded up to the call; with reset set the ledger is emptied only after that
\* summary was taken, so that the next summary has callCount 0; without reset
\* the ledger is left as it was.
Summarized == ledgerOps' # ledgerOps /\ Last(ledgerOps') \in {"reset", "getSummary"}

C33_SummaryTakenBeforeReset ==
  [][Summarized =>
       /\ result'[1].summary.callCount = Len(entries)
       /\ result'[1].summary.totalCost = formatCost(SumAt(entries, Positions))
       /\ result'[1].summary.since = getSummary(entries).since
       /\ DOMAIN result'[1].summary.byModel = {entries[i].model : i \in Positions}
       /\ IF Last(ledgerOps') = "reset"
          THEN /\ result'[1].wasReset
               /\ entries' = <<>>
               /\ getSummary(entries').callCount = 0
          ELSE /\ ~result'[1].wasReset
               /\ entries' = entries]_vars

\* A summary with reset: the response counts two entries worth 33 units and the
\* ledger is empty.
C33_Witness ==
  /\ Last(ledgerOps) = "reset"
  /\ entries = <<>>
  /\ Len(result) = 1
  /\ result[1].wasReset
  /\ result[1].summary.callCount = 2
  /\ result[1].summary.totalCost = "$0.000033"

\* C34 as stated: a research() call that has ended has one of the outcomes
\* success, RESEARCH_FAILED, API_ERROR, TIMEOUT.
C34_EndsWithOneOfFour ==
  ResearchEnded =>
    \/ outcome = "success"
    \/ \E kind \in {"RESEARCH_FAILED", "API_ERROR", "TIMEOUT"} : Raised(kind)

\* C34, amended: when every request settles and every timer fires, a research()
\* call that has started ends, with success or with one of AUTH_ERROR,
\* RATE_LIMIT, RESEARCH_FAILED, API_ERROR, TIMEOUT; and it never issues more
\* retrievals than timeoutMs / pollIntervalMs + 1.
ResearchRunning == tool = "deep_research" /\ pc \in {"create", "retrieving", "sleeping"}

ResearchOutcome ==
  /\ ResearchEnded
  /\ \/ outcome = "success"
     \/ \E kind \in {"AUTH_ERROR", "RATE_LIMIT", "RESEARCH_FAILED", "API_ERROR",
                      "TIMEOUT"} : Raised(kind)

RetrievalsWithinDeadline ==
  tool = "deep_research" =>
    retrieves <= (opts.timeoutMs \div PollIntervalOf(opts)) + 1

C34_ResearchTerminates ==
  /\ []RetrievalsWithinDeadline
  /\ [](ResearchEnded => ResearchOutcome)
  /\ ResearchRunning ~> ResearchOutcome

\* A call that polled as often as the deadline allows and then timed out.
C34_Witness ==
  /\ Raised("TIMEOUT")
  /\ tool = "deep_research"
  /\ opts.timeoutMs > 0
  /\ retrieves = (opts.timeoutMs \div PollIntervalOf(opts)) + 1
  /\ \A i \in 1..Len(polled) : polled[i].status \in {"in_progress", "queued", "threw"}

\* C35: a retrieval is issued only when the deadline has not passed at the top
\* of the iteration; the outcome of a retrieval that was issued is processed
\* whatever the elapsed time, so that completed with output gives success even
\* after the deadline; and TIMEOUT is raised only by the check at the top of an
\* iteration, after the start step or after a sleep, never by a step that
\* processes a retrieval.
RetrievalIssued == tool' = "deep_research" /\ retrieves' = retrieves + 1

RetrievalSettled == tool = "deep_research" /\ Len(polled') = Len(polled) + 1

TimeoutRaised ==
  /\ tool' = "deep_research"
  /\ pc # "done"
  /\ pc' = "done"
  /\ outcome' = "error"
  /\ StartsWith(errMsg', "TIMEOUT:")

C35_DeadlineCheckedAtIterationTop ==
  [][/\ RetrievalIssued => elapsed' <= opts'.timeoutMs
     /\ (RetrievalSettled /\ Last(polled').status = "completed" /\ Last(polled').hasText)
          => pc' = "done" /\ outcome' = "success"
     /\ TimeoutRaised =>
          /\ pc \in {"create", "sleeping"}
          /\ elapsed' > opts.timeoutMs
          /\ polled' = polled]_vars

\* C36: whatever the attempts of a withRetry call do, it never makes more than
\* maxRetries + 1 attempts; it has slept once less than it has made attempts, so
\* not after the last failure and not after a success; and the first attempt
\* that succeeds ends the call with the result of that attempt, without another
\* attempt or sleep.
InRetry == ThroughRetry /\ pc \in {"attempt", "backoff", "done"} /\ creates > 0

C36_RetryLoopInvariants ==
  /\ [](InRetry => /\ creates <= retryOpts.maxRetries + 1
                    /\ Len(slept) = creates - 1
                    /\ Len(remoteCalls) = creates)
  /\ [][\A r \in CreateResponses :
          (ThroughRetry /\ AttemptResolves(r)) =>
            /\ pc' = "done"
            /\ outcome' = "success"
            /\ result'[1].text = r.output_text
            /\ result'[1].usage = r.usage
            /\ creates' = creates
            /\ slept' = slept]_vars

\* The third attempt of a call with a budget of three retries succeeded.
C36_Witness ==
  /\ Ended
  /\ tool = "with_retry"
  /\ outcome = "success"
  /\ retryOpts.maxRetries = 3
  /\ creates = 3
  /\ Len(slept) = 2
  /\ result[1].text = "text"

\* C37: when withRetry fails, what it throws is the error of the last attempt it
\* made, as that attempt threw it: on the attempt that used up the budget and on
\* an attempt that failed with an error that is not retryable alike.
AttemptFailures == ApiErrors \cup {TimeoutError}

C37_LastErrorPropagatedUnchanged ==
  [][\A e \in AttemptFailures :
       (tool = "with_retry" /\ AttemptFails(e) /\ pc' = "done") =>
         /\ outcome' = "error"
         /\ errMsg' = e.message
         /\ lastError' = <<e>>
         /\ creates' = creates]_vars

\* The second and last attempt failed with a retryable error after a first attempt
\* that failed too, and the call threw it.
C37_Witness ==
  /\ Ended
  /\ tool = "with_retry"
  /\ outcome = "error"
  /\ retryOpts.maxRetries = 1
  /\ creates = 2
  /\ isRetryable(lastError[1], retryOpts.retryableErrors)
  /\ errMsg = "getaddrinfo ENOTFOUND api.openai.com"

\* C38: every race of withTimeout settles once: with what the operation gave
\* when the operation settles before the timer fires, with the TIMEOUT error when
\* the timer fires first. The event that comes second changes neither the
\* settlement nor the call that awaited the race, so a late result does not undo
\* a timeout and a late timer does not fail a success. A timeout leaves the
\* operation in flight, and every attempt issues a request of its own.
Settled(i) == Len(races[i].settled) # 0
\* Race i of this step's first state is race i of its second state: no new call.
SameRace(i) == i \in DOMAIN races' /\ calls' = calls
InFlight == {i \in DOMAIN races : races[i].operation = "pending"}

C38_RaceSettlesOnce ==
  /\ [](\A i \in DOMAIN races :
          /\ Settled(i) <=> (races[i].operation # "pending" \/ races[i].timer # "pending")
          /\ ~Settled(i) => (i = Len(races) /\ pc = "attempt")
          /\ Len(races) = creates \/ pc = "idle")
  /\ [][\A i \in DOMAIN races :
          /\ (Settled(i) /\ SameRace(i)) =>
                /\ races'[i].settled = races[i].settled
                /\ (races'[i] # races[i]) =>
                      UNCHANGED <<pc, outcome, errMsg, result, creates, lastError>>
          /\ (~Settled(i) /\ SameRace(i) /\ Settled(i)') =>
                LET how == races'[i].settled[1]
                IN /\ races[i].timer # races'[i].timer =>
                        /\ how = [by |-> "timer", value |-> TimeoutError.message]
                        /\ lastError' = <<TimeoutError>>
                        /\ races'[i].operation = "pending"
                        /\ outcome' # "success"
                   /\ races[i].operation # races'[i].operation =>
                        /\ how.by = "operation"
                        /\ races'[i].timer = "pending"
                        /\ races'[i].operation = "resolved" =>
                              (Ended' /\ outcome' = "success"
                                      /\ result'[1].text = how.value)
                        /\ races'[i].operation = "rejected" =>
                              (lastError'[1].message = how.value)]_vars

\* The first attempt timed out and was retried: its request and the request of
\* the second attempt are both in flight.
C38_Witness ==
  /\ pc = "attempt"
  /\ Len(races) = 2
  /\ races[1].settled = <<[by |-> "timer", value |-> TimeoutError.message]>>
  /\ InFlight = {1, 2}

\* C39: generate() and search() retry on RATE_LIMIT, 429, 503, 502, ECONNRESET
\* and ETIMEDOUT with a timeout of 60 minutes per attempt; an attempt of theirs
\* that runs into this timeout is not retried: the call fails with kind TIMEOUT
\* and no further request is made.
CallSitePatterns == {"RATE_LIMIT", "429", "503", "502", "ECONNRESET", "ETIMEDOUT"}

C39_TimedOutAttemptEndsCall ==
  [][(tool \in Controllers /\ AttemptTimesOut) =>
       /\ retryOpts.retryableErrors = CallSitePatterns
       /\ lastError' = <<TimeoutError>>
       /\ lastError'[1].message = "TIMEOUT: Operation timed out after 3600000ms"
       /\ pc' = "done"
       /\ outcome' = "error"
       /\ StartsWith(errMsg', "TIMEOUT:")
       /\ creates' = creates
       /\ remoteCalls' = remoteCalls
       /\ slept' = slept]_vars

\* The first attempt of a search() call timed out and the call failed at once.
C39_Witness ==
  /\ Raised("TIMEOUT")
  /\ tool = "web_search"
  /\ TimedOut
  /\ attempt = 0
  /\ creates = 1
  /\ slept = <<>>

\* C40: a generate() or search() call that is rejected with VALIDATION_ERROR has
\* changed nothing: it issued no remote request, appended no ledger entry and
\* wrote no usage-log entry, for a success or for a failure; and the message it
\* raises is the one of the validation, with its VALIDATION_ERROR kind.
ValidationMessage ==
  IF tool = "generate_text" THEN ValidateGenerate(opts) ELSE ValidateSearch(opts)

C40_RejectedCallChangesNothing ==
  /\ []((tool \in Controllers /\ Raised("VALIDATION_ERROR")) =>
          /\ creates = 0
          /\ remoteCalls = <<>>
          /\ Len(entries) = ledgerAtStart
          /\ ValidationMessage = <<errMsg>>)
  /\ [][(pc = "idle" /\ tool' \in Controllers /\ pc' = "done") =>
          /\ Raised("VALIDATION_ERROR")'
          /\ UNCHANGED <<entries, usageLog, costsFile, disk, ledgerOps>>
          /\ UNCHANGED <<creates, remoteCalls, retryVars>>]_vars

\* generate() was given a temperature with a reasoning effort other than none:
\* rejected, and the usage log is as empty as before.
C40_Witness ==
  /\ Raised("VALIDATION_ERROR")
  /\ tool = "generate_text"
  /\ Len(opts.temperature) # 0
  /\ StartsWith(errMsg, "VALIDATION_ERROR: Temperature is only allowed")
  /\ creates = 0
  /\ usageLog = <<>>
  /\ entries = <<>>
====
